---- MODULE Spec2Model ----
(***************************************************************************)
(* State-machine model of the deadlock-stats-cli synchronisation and       *)
(* ingestion engine: the storage upserts of src/src/db.rs, the retrying    *)
(* HTTP client of src/src/deadlock.rs and the sync orchestration of        *)
(* src/src/main.rs.                                                        *)
(*                                                                         *)
(* Conventions.  An Option<T> is a set with at most one element: None is   *)
(* {} and Some(x) is {x}; a nullable SQL column is the same.  A JSON       *)
(* object (jsonb) is a function from its keys to its values.  A table is   *)
(* the set of its rows; a row carries its key columns.                     *)
(***************************************************************************)
EXTENDS Integers, Sequences, FiniteSets, TLC

VARIABLES
  db,    \* the committed tables of the PostgreSQL database
  call,  \* the storage call that completed last: its input and its Result
  rq,    \* one DeadlockClient::get_json request in progress
  sync,  \* one `matches sync` run
  cmd,   \* the `matches history` command that ran last
  txs,   \* the open ingest_matches_batch transactions of concurrent runs
  lookup \* the player lookup that ran last

vars == <<db, call, rq, sync, cmd, txs, lookup>>

----------------------------------------------------------------------------
(* Options and JSON objects *)

None == {}

Some(x) == {x}

\* SQL COALESCE(a, b) on nullable values.
Coalesce(a, b) == IF a # None THEN a ELSE b

EmptyObj == [k \in {} |-> 0]

\* PostgreSQL jsonb `a || b` on two objects: the union of the keys, the
\* right operand's value on a key both have.
JsonbConcat(a, b) ==
  [k \in (DOMAIN a) \cup (DOMAIN b) |-> IF k \in DOMAIN b THEN b[k] ELSE a[k]]

\* db.rs ts_from_epoch_secs: negative seconds clamp to the epoch.
TsFromEpochSecs(s) == IF s < 0 THEN 0 ELSE s

----------------------------------------------------------------------------
(* steam.rs: account id <-> SteamID64.  A SteamID64 is kept as its string  *)
(* of decimal digits (most significant first), as the code stores it.      *)

STEAMID64_MIN == <<7,6,5,6,1,1,9,7,9,6,0,2,6,5,7,2,8>>

\* digits + n, by schoolbook addition from the last digit.
RECURSIVE AddToDigits(_, _)
AddToDigits(ds, n) ==
  IF n = 0 THEN ds
  ELSE IF ds = <<>> THEN AddToDigits(<<>>, n \div 10) \o <<n % 10>>
  ELSE LET s == ds[Len(ds)] + n
       IN  AddToDigits(SubSeq(ds, 1, Len(ds) - 1), s \div 10) \o <<s % 10>>

account_id_to_steamid64(account_id) == AddToDigits(STEAMID64_MIN, account_id)

\* A string is a sequence of characters: the digits 0..9, and 10 for any
\* other character.
is_steamid64(s) == Len(s) = 17 /\ \A i \in 1..Len(s) : s[i] \in 0..9

\* a < b for digit strings of one length.
DigitsLess(a, b) ==
  \E i \in 1..Len(a) : a[i] < b[i] /\ \A j \in 1..(i - 1) : a[j] = b[j]

\* validate_steamid64 returns Ok(()).  A string of 17 digits always parses
\* as u64.
validate_steamid64(id) == is_steamid64(id) /\ ~DigitsLess(id, STEAMID64_MIN)

\* a - b - borrow for digit strings of one length with a >= b, by schoolbook
\* subtraction from the last digit.
RECURSIVE SubDigits(_, _, _)
SubDigits(a, b, borrow) ==
  IF a = <<>> THEN <<>>
  ELSE LET d == a[Len(a)] - b[Len(b)] - borrow
       IN  SubDigits(SubSeq(a, 1, Len(a) - 1), SubSeq(b, 1, Len(b) - 1),
                     IF d < 0 THEN 1 ELSE 0)
           \o <<IF d < 0 THEN d + 10 ELSE d>>

\* The low 32 bits of the number a digit string denotes, as two 16-bit
\* halves <<high, low>>.
RECURSIVE Low32(_)
Low32(ds) ==
  IF ds = <<>> THEN <<0, 0>>
  ELSE LET p  == Low32(SubSeq(ds, 1, Len(ds) - 1))
           lo == p[2] * 10 + ds[Len(ds)]
           hi == p[1] * 10 + lo \div 65536
       IN  <<hi % 65536, lo % 65536>>

\* `acc as u32`: the u64 is cut to its low 32 bits.
AsU32(ds) == Low32(ds)[1] * 65536 + Low32(ds)[2]

\* steamid64_to_account_id: Err is the empty set, Ok(acc) is {acc}.
steamid64_to_account_id(id) ==
  IF ~validate_steamid64(id) THEN {}
  ELSE {AsU32(SubDigits(id, STEAMID64_MIN, 0))}

----------------------------------------------------------------------------
(* Column sets of the tables written by ingest_matches_batch *)

MatchCols ==
  {"start_time", "duration_s", "winner_team", "average_badge", "region",
   "patch_version"}

MatchPlayerCols ==
  {"hero_id", "team", "party_id", "lane", "is_victory", "kills", "deaths",
   "assists", "networth", "damage", "damage_taken", "obj_damage",
   "last_hits", "accuracy", "crit_shot_rate"}

ProfileCols ==
  {"personaname", "profileurl", "avatar", "avatarmedium", "avatarfull",
   "countrycode", "realname"}

AllNull(cols) == [c \in cols |-> None]

EmptyDb ==
  [matches            |-> {},
   players            |-> {},
   match_players      |-> {},
   latest_mmr         |-> {},
   mmr_history        |-> {},
   hero_stats_current |-> {},
   hero_stats_history |-> {}]

----------------------------------------------------------------------------
(* db.rs ingest_matches_batch and the statements it executes *)

\* The values bound to $2..$7: start_time goes through ts_from_epoch_secs.
BindMatchScalars(m) ==
  [c \in MatchCols |->
     IF c = "start_time" THEN {TsFromEpochSecs(s) : s \in m.sc[c]}
     ELSE m.sc[c]]

\* m.info.clone().unwrap_or_else(|| json!({}))
OrEmptyObj(opt) == IF opt = None THEN EmptyObj ELSE CHOOSE o \in opt : TRUE

\* A full overwrite, col = EXCLUDED.col, in place of the COALESCE.
MergeMatchScalarsOverwrite(excluded, stored) == excluded

\* ON CONFLICT (match_id) DO UPDATE SET col = COALESCE(EXCLUDED.col, matches.col)
MergeMatchScalars(excluded, stored) ==
  [c \in MatchCols |-> Coalesce(excluded[c], stored[c])]

\* A full replacement, info_json = EXCLUDED.info_json, in place of the union.
MergeInfoJsonReplace(stored, excluded) == excluded

\* info_json = matches.info_json || EXCLUDED.info_json
MergeInfoJson(stored, excluded) == JsonbConcat(stored, excluded)

\* INSERT INTO matches ... ON CONFLICT (match_id) DO UPDATE ...
UpsertMatch(D, m) ==
  LET excluded == [match_id  |-> m.match_id,
                   sc        |-> BindMatchScalars(m),
                   info_json |-> OrEmptyObj(m.info)]
      hit == {r \in D.matches : r.match_id = m.match_id}
  IN  IF hit = {}
      THEN [D EXCEPT !.matches = @ \cup {excluded}]
      ELSE [D EXCEPT !.matches =
              (@ \ hit) \cup
              {[match_id  |-> r.match_id,
                sc        |-> MergeMatchScalars(excluded.sc, r.sc),
                info_json |-> MergeInfoJson(r.info_json, excluded.info_json)]
                 : r \in hit}]

\* No stub insert at all.
EnsurePlayerStubSkip(D, account_id) == D

\* An upsert, ON CONFLICT (account_id) DO UPDATE, in place of DO NOTHING.
EnsurePlayerStubUpsert(D, account_id) ==
  LET stub == [account_id         |-> account_id,
               steamid64          |-> account_id_to_steamid64(account_id),
               prof               |-> AllNull(ProfileCols),
               profile_extra      |-> EmptyObj,
               profile_updated_at |-> None]
  IN  [D EXCEPT !.players =
         {r \in @ : r.account_id # account_id} \cup {stub}]

\* ensure_player_stub: INSERT INTO players (account_id, steamid64)
\* ... ON CONFLICT (account_id) DO NOTHING.  The columns the statement does
\* not name take the column defaults (null; '{}' for profile_extra).
EnsurePlayerStub(D, account_id) ==
  LET stub == [account_id         |-> account_id,
               steamid64          |-> account_id_to_steamid64(account_id),
               prof               |-> AllNull(ProfileCols),
               profile_extra      |-> EmptyObj,
               profile_updated_at |-> None]
  IN  IF \E r \in D.players : r.account_id = account_id
      THEN D
      ELSE [D EXCEPT !.players = @ \cup {stub}]

\* extra_json = match_players.extra_json || EXCLUDED.extra_json
MergeExtraJson(stored, excluded) == JsonbConcat(stored, excluded)

\* upsert_match_player: ON CONFLICT (match_id, account_id) DO UPDATE SET
\* every scalar = EXCLUDED.scalar, extra_json = stored || EXCLUDED.
UpsertMatchPlayer(D, match_id, p) ==
  LET excluded == [match_id   |-> match_id,
                   account_id |-> p.account_id,
                   sc         |-> p.sc,
                   extra_json |-> OrEmptyObj(p.extra)]
      hit == {r \in D.match_players :
                r.match_id = match_id /\ r.account_id = p.account_id}
  IN  IF hit = {}
      THEN [D EXCEPT !.match_players = @ \cup {excluded}]
      ELSE [D EXCEPT !.match_players =
              (@ \ hit) \cup
              {[match_id   |-> r.match_id,
                account_id |-> r.account_id,
                sc         |-> excluded.sc,
                extra_json |-> MergeExtraJson(r.extra_json, excluded.extra_json)]
                 : r \in hit}]

NoPlayerInMatch ==
  [account_id |-> 0, sc |-> AllNull(MatchPlayerCols), extra |-> None]

\* The statements of one record, in execution order: the record upsert,
\* then a stub insert and a sub-record upsert per nested player.
RECURSIVE PlayerStmts(_, _)
PlayerStmts(m, ps) ==
  IF ps = <<>> THEN <<>>
  ELSE <<[kind |-> "stub", m |-> m, p |-> Head(ps)],
         [kind |-> "match_player", m |-> m, p |-> Head(ps)]>>
       \o PlayerStmts(m, Tail(ps))

RECURSIVE MatchStmts(_)
MatchStmts(metas) ==
  IF metas = <<>> THEN <<>>
  ELSE LET m == Head(metas)
       IN  <<[kind |-> "match", m |-> m, p |-> NoPlayerInMatch]>>
           \o (IF m.players = None THEN <<>>
               ELSE PlayerStmts(m, CHOOSE ps \in m.players : TRUE))
           \o MatchStmts(Tail(metas))

ExecMatchStmt(D, s) ==
  CASE s.kind = "match"        -> UpsertMatch(D, s.m)
    [] s.kind = "stub"         -> EnsurePlayerStub(D, s.p.account_id)
    [] s.kind = "match_player" -> UpsertMatchPlayer(D, s.m.match_id, s.p)

\* The tables as seen inside the transaction after its first n statements.
RECURSIVE ExecMatchStmts(_, _, _)
ExecMatchStmts(D, stmts, n) ==
  IF n = 0 THEN D
  ELSE ExecMatchStmt(ExecMatchStmts(D, stmts, n - 1), stmts[n])

\* MatchesIngestResult after the first n statements: matches_upserted counts
\* the record upserts, the other two count the sub-record upserts.
CountKind(stmts, n, kind) ==
  Cardinality({i \in 1..n : stmts[i].kind = kind})

MatchesIngestResult(stmts, n) ==
  [matches_upserted       |-> CountKind(stmts, n, "match"),
   match_players_upserted |-> CountKind(stmts, n, "match_player"),
   players_upserted       |-> CountKind(stmts, n, "match_player")]

NoCounts ==
  [matches_upserted |-> 0, match_players_upserted |-> 0, players_upserted |-> 0]

\* Where the awaited storage operations of one ingest can fail: 0 nowhere,
\* 1 at pool.begin(), 1 + i at the i-th statement, n + 2 at tx.commit().
\* Statements run inside the transaction `tx`; a `?` on a failure returns
\* early and drops `tx`, which rolls it back, so what the statements wrote
\* reaches the committed tables only through tx.commit().  A commit that
\* reports failure has committed nothing.
Executed(n, failAt) ==
  IF failAt = 0 \/ failAt = n + 2 THEN n
  ELSE IF failAt = 1 THEN 0
  ELSE failAt - 2

\* The statements executed on the pool, each committing on its own, in place
\* of one transaction.
ingest_matches_batch_autocommit(D, metas, failAt) ==
  LET stmts == MatchStmts(metas)
      n     == Len(stmts)
  IN  [db  |-> ExecMatchStmts(D, stmts, Executed(n, failAt)),
       ok  |-> failAt = 0,
       out |-> IF failAt = 0 THEN MatchesIngestResult(stmts, n) ELSE NoCounts]

ingest_matches_batch(D, metas, failAt) ==
  LET stmts     == MatchStmts(metas)
      n         == Len(stmts)
      inTx      == ExecMatchStmts(D, stmts, Executed(n, failAt))
      committed == failAt = 0
  IN  [db  |-> IF committed THEN inTx ELSE D,
       ok  |-> committed,
       out |-> IF committed THEN MatchesIngestResult(stmts, n) ELSE NoCounts]

MatchFailPoints(metas) == 0 .. (Len(MatchStmts(metas)) + 2)

----------------------------------------------------------------------------
(* db.rs ingest_player and the statements it executes *)

HeroCols ==
  {"matches_played", "wins", "time_played", "ending_level", "kills",
   "deaths", "assists", "kills_per_min", "deaths_per_min",
   "assists_per_min", "networth_per_min", "last_hits_per_min",
   "damage_per_min", "damage_taken_per_min", "obj_damage_per_min",
   "accuracy", "crit_shot_rate"}

MmrCols == {"match_id", "player_score", "rank", "division", "division_tier"}

\* A string that may or may not be a decimal number: s.parse::<i64>().ok()
ParseI64(s) == IF s.numeric THEN Some(s.n) ELSE None

\* SQL GREATEST(a, b): nulls are ignored.
Greatest(a, b) ==
  IF a = None THEN b
  ELSE IF b = None THEN a
  ELSE LET x == CHOOSE v \in a : TRUE
           y == CHOOSE v \in b : TRUE
       IN  IF x >= y THEN a ELSE b

\* upsert_player: every profile column = EXCLUDED, profile_extra = stored ||
\* '{}', profile_updated_at = GREATEST(stored, EXCLUDED).
UpsertPlayer(D, account_id, steamid64, p) ==
  LET updated_at == UNION {{TsFromEpochSecs(x) : x \in ParseI64(s)} : s \in p.last_updated}
      excluded == [account_id         |-> account_id,
                   steamid64          |-> steamid64,
                   prof               |-> p.cols,
                   profile_extra      |-> EmptyObj,
                   profile_updated_at |-> updated_at]
      hit == {r \in D.players : r.account_id = account_id}
  IN  IF hit = {}
      THEN [D EXCEPT !.players = @ \cup {excluded}]
      ELSE [D EXCEPT !.players =
              (@ \ hit) \cup
              {[account_id         |-> r.account_id,
                steamid64          |-> excluded.steamid64,
                prof               |-> excluded.prof,
                profile_extra      |-> JsonbConcat(r.profile_extra, excluded.profile_extra),
                profile_updated_at |-> Greatest(r.profile_updated_at, excluded.profile_updated_at)]
                 : r \in hit}]

\* upsert_latest_mmr: ON CONFLICT (account_id) DO UPDATE SET every scalar =
\* EXCLUDED, extra = stored || '{}'.
UpsertLatestMmr(D, account_id, m) ==
  LET excluded == [account_id |-> account_id,
                   start_time |-> TsFromEpochSecs(m.start_time),
                   sc         |-> m.sc,
                   extra      |-> EmptyObj]
      hit == {r \in D.latest_mmr : r.account_id = account_id}
  IN  IF hit = {}
      THEN [D EXCEPT !.latest_mmr = @ \cup {excluded}]
      ELSE [D EXCEPT !.latest_mmr =
              (@ \ hit) \cup
              {[account_id |-> r.account_id,
                start_time |-> excluded.start_time,
                sc         |-> excluded.sc,
                extra      |-> JsonbConcat(r.extra, excluded.extra)]
                 : r \in hit}]

\* ON CONFLICT (account_id, start_time) DO UPDATE, in place of DO NOTHING.
InsertMmrHistoryUpsert(D, account_id, m) ==
  LET row == [account_id |-> account_id,
              start_time |-> TsFromEpochSecs(m.start_time),
              sc         |-> m.sc,
              extra      |-> EmptyObj]
      hit == {r \in D.mmr_history :
                r.account_id = row.account_id /\ r.start_time = row.start_time}
  IN  [D EXCEPT !.mmr_history = (@ \ hit) \cup {row}]

\* insert_mmr_history: ON CONFLICT (account_id, start_time) DO NOTHING
InsertMmrHistory(D, account_id, m) ==
  LET row == [account_id |-> account_id,
              start_time |-> TsFromEpochSecs(m.start_time),
              sc         |-> m.sc,
              extra      |-> EmptyObj]
  IN  IF \E r \in D.mmr_history :
           r.account_id = row.account_id /\ r.start_time = row.start_time
      THEN D
      ELSE [D EXCEPT !.mmr_history = @ \cup {row}]

\* A null-coalescing merge, col = COALESCE(EXCLUDED.col, stored col), in
\* place of the overwrite.
CoalesceHeroScalars(excluded, stored) ==
  [c \in HeroCols |-> Coalesce(excluded[c], stored[c])]

\* Counters accumulated, col = hero_stats_current.col + EXCLUDED.col, in
\* place of the overwrite.
AccumulateHeroScalars(excluded, stored) ==
  [c \in HeroCols |->
     IF excluded[c] # None /\ stored[c] # None
     THEN {x + y : x \in excluded[c], y \in stored[c]}
     ELSE Coalesce(excluded[c], stored[c])]

\* ON CONFLICT (account_id, hero_id) DO UPDATE SET col = EXCLUDED.col
OverwriteHeroScalars(excluded, stored) == excluded

\* upsert_hero_current: ON CONFLICT (account_id, hero_id) DO UPDATE SET
\* every scalar (last_played too) = EXCLUDED, extra = stored || '{}'.
UpsertHeroCurrent(D, account_id, h) ==
  LET excluded == [account_id  |-> account_id,
                   hero_id     |-> h.hero_id,
                   last_played |-> {TsFromEpochSecs(s) : s \in h.last_played},
                   sc          |-> h.sc,
                   extra       |-> EmptyObj]
      hit == {r \in D.hero_stats_current :
                r.account_id = account_id /\ r.hero_id = h.hero_id}
  IN  IF hit = {}
      THEN [D EXCEPT !.hero_stats_current = @ \cup {excluded}]
      ELSE [D EXCEPT !.hero_stats_current =
              (@ \ hit) \cup
              {[account_id  |-> r.account_id,
                hero_id     |-> r.hero_id,
                last_played |-> excluded.last_played,
                sc          |-> OverwriteHeroScalars(excluded.sc, r.sc),
                extra       |-> JsonbConcat(r.extra, excluded.extra)]
                 : r \in hit}]

\* insert_hero_snapshot: only when last_played is present; the snapshot is
\* the serialised HeroStats; ON CONFLICT (account_id, hero_id, last_played)
\* DO NOTHING.
InsertHeroSnapshot(D, account_id, h) ==
  IF h.last_played = None THEN D
  ELSE LET row == [account_id    |-> account_id,
                   hero_id       |-> h.hero_id,
                   last_played   |-> TsFromEpochSecs(CHOOSE s \in h.last_played : TRUE),
                   snapshot_json |-> h]
       IN  IF \E r \in D.hero_stats_history :
                /\ r.account_id = row.account_id
                /\ r.hero_id = row.hero_id
                /\ r.last_played = row.last_played
           THEN D
           ELSE [D EXCEPT !.hero_stats_history = @ \cup {row}]

NoHero == [account_id |-> 0, hero_id |-> 0, last_played |-> None, sc |-> AllNull(HeroCols)]

RECURSIVE HeroStmts(_)
HeroStmts(hs) ==
  IF hs = <<>> THEN <<>>
  ELSE <<[kind |-> "hero_current", h |-> Head(hs)]>>
       \o (IF Head(hs).last_played # None
           THEN <<[kind |-> "hero_snapshot", h |-> Head(hs)]>> ELSE <<>>)
       \o HeroStmts(Tail(hs))

\* The statements of ingest_player, in execution order.
PlayerIngestStmts(payload) ==
  <<[kind |-> "player", h |-> NoHero]>>
  \o (IF payload.latest_mmr # None
      THEN <<[kind |-> "latest_mmr", h |-> NoHero],
             [kind |-> "mmr_history", h |-> NoHero]>>
      ELSE <<>>)
  \o HeroStmts(payload.hero_stats)

ExecPlayerStmt(D, payload, s) ==
  LET mmr == CHOOSE m \in payload.latest_mmr : TRUE
  IN  CASE s.kind = "player" ->
             UpsertPlayer(D, payload.account_id, payload.steamid64, payload.profile)
        [] s.kind = "latest_mmr"    -> UpsertLatestMmr(D, payload.account_id, mmr)
        [] s.kind = "mmr_history"   -> InsertMmrHistory(D, payload.account_id, mmr)
        [] s.kind = "hero_current"  -> UpsertHeroCurrent(D, payload.account_id, s.h)
        [] s.kind = "hero_snapshot" -> InsertHeroSnapshot(D, payload.account_id, s.h)

RECURSIVE ExecPlayerStmts(_, _, _, _)
ExecPlayerStmts(D, payload, stmts, n) ==
  IF n = 0 THEN D
  ELSE ExecPlayerStmt(ExecPlayerStmts(D, payload, stmts, n - 1), payload, stmts[n])

\* The counts of the distinct categories of the payload instead of its
\* entries.
IngestResultDistinct(payload) ==
  [heroes_upserted    |->
     Cardinality({payload.hero_stats[i].hero_id : i \in 1..Len(payload.hero_stats)}),
   hero_history_added |->
     Cardinality({payload.hero_stats[i].hero_id :
                    i \in {j \in 1..Len(payload.hero_stats) :
                             payload.hero_stats[j].last_played # None}}),
   mmr_updated        |-> payload.latest_mmr # None]

IngestResult(payload) ==
  [heroes_upserted    |-> Len(payload.hero_stats),
   hero_history_added |->
     Cardinality({i \in 1..Len(payload.hero_stats) :
                    payload.hero_stats[i].last_played # None}),
   mmr_updated        |-> payload.latest_mmr # None]

NoIngestResult ==
  [heroes_upserted |-> 0, hero_history_added |-> 0, mmr_updated |-> FALSE]

ingest_player(D, payload, failAt) ==
  LET stmts     == PlayerIngestStmts(payload)
      n         == Len(stmts)
      inTx      == ExecPlayerStmts(D, payload, stmts, Executed(n, failAt))
      committed == failAt = 0
  IN  [db  |-> IF committed THEN inTx ELSE D,
       ok  |-> committed,
       out |-> IF committed THEN IngestResult(payload) ELSE NoIngestResult]

PlayerFailPoints(payload) == 0 .. (Len(PlayerIngestStmts(payload)) + 2)

----------------------------------------------------------------------------
(* deadlock.rs: DeadlockClient::get_json, one request with its retries *)

\* let mut delay = Duration::from_millis(400)
InitialDelayMs == 400

\* for attempt in 0..4
MaxAttempts == 4

\* `attempt < 3`: the attempts after which a backoff sleep is taken
LastRetry == 3

Unwrap(opt) == CHOOSE x \in opt : TRUE

\* A Retry-After header: absent ("none"), a seconds count ("secs"), an HTTP
\* date in whole seconds since the epoch ("date"), or other text ("bad").
Header(t, v) == [t |-> t, v |-> v]

NoHeader == Header("none", 0)

\* A response as get_json sees it: send() failed (kind "net"), or a status
\* with its Retry-After header and whether the body decodes as T.
Response(kind, status, retry_after, json_ok) ==
  [kind |-> kind, status |-> status, retry_after |-> retry_after,
   json_ok |-> json_ok]

\* DeadlockError: RateLimited(msg), Http{status, message}, Other(error).
\* `from` tells the two sources of Other apart (send() or the body decode);
\* `msg` is the attempt whose response the error carries.
DeadlockError(kind, status, from, msg) ==
  [kind |-> kind, status |-> status, from |-> from, msg |-> msg]

\* Err(... anyhow!("HTTP failed")) of an empty last_err.
HttpFailed == DeadlockError("Other", 0, "none", -1)

NoError == DeadlockError("none", 0, "none", -1)

ResultOk(out) == [ok |-> TRUE, err |-> NoError, out |-> out]

ResultErr(e) == [ok |-> FALSE, err |-> e, out |-> -1]

\* parse_retry_after at clock `now` (milliseconds): a u64 is a number of
\* seconds; an HTTP date gives the time left until it, and nothing once it
\* has passed; anything else gives nothing.
parse_retry_after(h, now) ==
  IF h.t = "secs" THEN Some(h.v * 1000)
  ELSE IF h.t = "date" /\ h.v * 1000 >= now THEN Some(h.v * 1000 - now)
  ELSE None

\* tokio::time::sleep(d): the sleep is logged and the clock moves on.
Sleep(st, ms, why) ==
  [st EXCEPT !.log = Append(@, [ev |-> "sleep", ms |-> ms, why |-> why]),
             !.now = @ + ms]

HintedSleepBackoff(st, ms) ==
  [Sleep(st, ms, "hint") EXCEPT !.delay = 2 * @]

\* sleep(wait_dur) of a 429 with a usable Retry-After.
HintedSleep(st, ms) == Sleep(st, ms, "hint")

BackoffLinear(st, why) ==
  [Sleep(st, st.delay, why) EXCEPT !.delay = @ + InitialDelayMs]

\* sleep(delay); delay = delay.saturating_mul(2)
Backoff(st, why) ==
  [Sleep(st, st.delay, why) EXCEPT !.delay = 2 * @]

KeepFirstErr(st, e) ==
  [st EXCEPT !.last_err = IF @ = None THEN Some(e) ELSE @]

\* last_err = Some(e)
SetLastErr(st, e) == [st EXCEPT !.last_err = Some(e)]

\* return: the request is over.
Return(st, res) == [st EXCEPT !.pc = "done", !.result = Some(res)]

\* `continue`, or the end of the loop body: the next attempt if the range
\* 0..4 has one, else the Err(last_err) after the loop.
NextAttempt(st) ==
  IF st.attempt + 1 < MaxAttempts
  THEN [st EXCEPT !.attempt = @ + 1]
  ELSE Return([st EXCEPT !.attempt = @ + 1],
              ResultErr(IF st.last_err = None THEN HttpFailed
                        ELSE Unwrap(st.last_err)))

\* status == 429
OnRateLimited(st, rsp) ==
  LET hint  == parse_retry_after(rsp.retry_after, st.now)
      slept == IF hint # None THEN HintedSleep(st, Unwrap(hint))
               ELSE IF st.attempt < LastRetry THEN Backoff(st, "rate_limited")
               ELSE st
  IN  NextAttempt(SetLastErr(slept,
                    DeadlockError("RateLimited", rsp.status, "status", st.attempt)))

OnStatusRetry(st, rsp) ==
  LET s == SetLastErr(st, DeadlockError("Http", rsp.status, "status", st.attempt))
  IN  IF st.attempt < LastRetry THEN NextAttempt(Backoff(s, "status"))
      ELSE NextAttempt(s)

\* !status.is_success()
OnStatus(st, rsp) ==
  Return(st, ResultErr(DeadlockError("Http", rsp.status, "status", st.attempt)))

\* rsp.json::<T>()
OnSuccess(st, rsp) ==
  IF rsp.json_ok THEN Return(st, ResultOk(st.attempt))
  ELSE Return(st, ResultErr(DeadlockError("Other", 0, "json", st.attempt)))

OnSendErrNoRetry(st) ==
  Return(st, ResultErr(DeadlockError("Other", 0, "send", st.attempt)))

\* Err(e) of send()
OnSendErr(st) ==
  LET s == SetLastErr(st, DeadlockError("Other", 0, "send", st.attempt))
  IN  IF st.attempt < LastRetry THEN NextAttempt(Backoff(s, "network"))
      ELSE NextAttempt(s)

IsSuccess(status) == status \in 200..299

\* One iteration of the loop of get_json on the response `rsp`.
get_json_attempt(st, rsp) ==
  LET s == [st EXCEPT !.log = Append(@, [ev |-> "send", ms |-> 0, why |-> "attempt"]),
                      !.rsps = Append(@, rsp),
                      !.nows = Append(@, st.now)]
  IN  IF rsp.kind = "net" THEN OnSendErr(s)
      ELSE IF rsp.status = 429 THEN OnRateLimited(s, rsp)
      ELSE IF ~IsSuccess(rsp.status) THEN OnStatus(s, rsp)
      ELSE OnSuccess(s, rsp)

\* The locals of get_json before its first attempt, at clock `now`.
NewRequest(now) ==
  [pc |-> "run", attempt |-> 0, delay |-> InitialDelayMs, last_err |-> None,
   log |-> <<>>, rsps |-> <<>>, nows |-> <<>>, now |-> now, result |-> None]

NoRequest == [NewRequest(0) EXCEPT !.pc = "idle"]

----------------------------------------------------------------------------
(* main.rs: `matches sync`, candidate resolution, dedup and chunking *)

Range(seq) == { seq[i] : i \in DOMAIN seq }

\* The elements of a finite set of integers in ascending order.
RECURSIVE SortedSeq(_)
SortedSeq(S) ==
  IF S = {} THEN <<>>
  ELSE LET x == CHOOSE x \in S : \A y \in S : x <= y
       IN  <<x>> \o SortedSeq(S \ {x})

\* candidate_ids.sort_unstable(); candidate_ids.dedup()
SortDedup(seq) == SortedSeq(Range(seq))

TruncateTail(seq, limit) ==
  IF Len(seq) > limit THEN SubSeq(seq, Len(seq) - limit + 1, Len(seq)) ELSE seq

\* if candidate_ids.len() > limit { candidate_ids.truncate(limit) }
Truncate(seq, limit) ==
  IF Len(seq) > limit THEN SubSeq(seq, 1, limit) ELSE seq

\* while candidate_ids.len() < limit && next <= until_cap { push(next); next += 1 }
\* (until_cap is i64::MAX when until_id is None)
RECURSIVE Window(_, _, _, _)
Window(acc, next, until_id, limit) ==
  IF Len(acc) < limit /\ (until_id = None \/ next <= Unwrap(until_id))
  THEN Window(Append(acc, next), next + 1, until_id, limit)
  ELSE acc

StoredIds(D) == { r.match_id : r \in D.matches }

\* SELECT COALESCE(MAX(match_id), 0) FROM matches
MaxStored(D) ==
  IF StoredIds(D) = {} THEN 0
  ELSE CHOOSE x \in StoredIds(D) : \A y \in StoredIds(D) : y <= x

\* The resolution with since/until applied to explicit and derived ids too.
ResolveCandidatesBounded(D, args, mmr, max_ok) ==
  LET explicit == args.ids
      derived  == IF args.account_id # None /\ mmr.ok
                  THEN explicit \o mmr.ids ELSE explicit
      inside   == SelectSeq(derived,
                    LAMBDA id : /\ args.since_id = None \/ id > Unwrap(args.since_id)
                                /\ args.until_id = None \/ id <= Unwrap(args.until_id))
      start_from == IF args.since_id # None THEN Unwrap(args.since_id)
                    ELSE IF max_ok THEN MaxStored(D) ELSE 0
      windowed == IF inside = <<>>
                  THEN Window(<<>>, start_from + 1, args.until_id, args.limit)
                  ELSE inside
  IN  [none       |-> windowed = <<>>,
       warned     |-> args.account_id # None /\ ~mmr.ok,
       max_failed |-> inside = <<>> /\ args.since_id = None /\ ~max_ok,
       candidates |-> Truncate(SortDedup(windowed), args.limit)]

\* The candidate ids of a run: the explicit ids, then the match ids of the
\* account's MMR history (`mmr` is the Result of get_mmr), then, if there is
\* still none, the sequential window (`max_ok`: the MAX query succeeded).
\* `none` is the "No IDs to fetch" return of an empty window, `warned` the
\* warning of a failed get_mmr, `max_failed` a MAX query issued and failed.
ResolveCandidates(D, args, mmr, max_ok) ==
  LET explicit == args.ids
      derived  == IF args.account_id # None /\ mmr.ok
                  THEN explicit \o mmr.ids ELSE explicit
      start_from == IF args.since_id # None THEN Unwrap(args.since_id)
                    ELSE IF max_ok THEN MaxStored(D) ELSE 0
      windowed == IF derived = <<>>
                  THEN Window(<<>>, start_from + 1, args.until_id, args.limit)
                  ELSE derived
  IN  [none       |-> windowed = <<>>,
       warned     |-> args.account_id # None /\ ~mmr.ok,
       max_failed |-> derived = <<>> /\ args.since_id = None /\ ~max_ok,
       candidates |-> Truncate(SortDedup(windowed), args.limit)]

\* candidate_ids.retain(|id| !existing.contains(id))
Retain(candidates, existing) ==
  SelectSeq(candidates, LAMBDA id : id \notin existing)

\* A failed query counts every candidate as stored.
ExistingIdsOrAll(D, candidates, query_ok) ==
  IF query_ok THEN StoredIds(D) \cap Range(candidates) ELSE Range(candidates)

\* The rows of `SELECT match_id FROM matches WHERE match_id = ANY($1)`
\* after .unwrap_or_default(): none when the query fails.
ExistingIds(D, candidates, query_ok) ==
  IF query_ok THEN StoredIds(D) \cap Range(candidates) ELSE {}

RECURSIVE ChunksDropTail(_, _)
ChunksDropTail(seq, batch_size) ==
  LET b == IF batch_size > 1 THEN batch_size ELSE 1
  IN  IF Len(seq) < b THEN <<>>
      ELSE <<SubSeq(seq, 1, b)>> \o ChunksDropTail(SubSeq(seq, b + 1, Len(seq)), batch_size)

\* candidate_ids.chunks(batch_size.max(1))
RECURSIVE Chunks(_, _)
Chunks(seq, batch_size) ==
  LET b == IF batch_size > 1 THEN batch_size ELSE 1
  IN  IF seq = <<>> THEN <<>>
      ELSE IF Len(seq) <= b THEN <<seq>>
      ELSE <<SubSeq(seq, 1, b)>> \o Chunks(SubSeq(seq, b + 1, Len(seq)), batch_size)

SyncArgs(ids, account_id, since_id, until_id, limit, batch_size, dry_run) ==
  [ids |-> ids, account_id |-> account_id, since_id |-> since_id,
   until_id |-> until_id, limit |-> limit, batch_size |-> batch_size,
   dry_run |-> dry_run]

NoArgs == SyncArgs(<<>>, None, None, None, 0, 0, FALSE)

\* The Result of get_mmr: the match ids of its entries.
MmrOk(ids) == [ok |-> TRUE, ids |-> ids, err |-> NoError]

MmrErr ==
  [ok |-> FALSE, ids |-> <<>>, err |-> DeadlockError("Http", 500, "status", 0)]

\* get_mmr's request got a 429 on each of its attempts.
MmrRateLimited ==
  [MmrErr EXCEPT !.err = DeadlockError("RateLimited", 429, "status", MaxAttempts - 1)]

\* main: the exit status of the process for the Result of async_main.
main_generic(res) == IF res.ok THEN 0 ELSE 1

main(res) ==
  IF res.ok THEN 0
  ELSE IF res.err.kind = "RateLimited" THEN 29
  ELSE 1

\* A run of `matches sync`.  pc: "idle" (not started), "dedup" (candidates
\* resolved), "fetch" (about to request chunk k), "ingest" (chunk k fetched,
\* about to store `metas`), "done" (returned Ok), "failed" (returned Err).
\* `requested` lists the chunks requested from upstream so far and `results`
\* what get_matches_metadata returned for them; `fails` lists, for each call
\* of ingest_matches_batch, the storage operation that failed in it (0: none);
\* `note` is the branch a finished run returned from; `dedup_ok` tells
\* whether the existing-ids query of the run succeeded, `mmr` what get_mmr
\* returned (MmrErr also when it was not called) and `max_failed` whether
\* the MAX query was issued and failed.  `rerun_of` is empty unless the run
\* repeats, with the same arguments, the run before it that failed: then it
\* holds the ids of the records that run committed.
NewSync(args) ==
  [pc |-> "idle", args |-> args, candidates |-> <<>>, residual |-> <<>>,
   chunks |-> <<>>, k |-> 0, metas |-> <<>>, total_matches |-> 0,
   total_players |-> 0, requested |-> <<>>, results |-> <<>>,
   fails |-> <<>>, warned |-> FALSE, dedup_ok |-> TRUE,
   mmr |-> MmrErr, max_failed |-> FALSE,
   rerun_of |-> {},
   note |-> "none", err |-> NoError]

NoSync == NewSync(NoArgs)

\* The run starts over at its dedup step in place of returning.
SyncDoneRestart(st, note) ==
  [NewSync(st.args) EXCEPT !.pc = "dedup", !.candidates = st.candidates]

SyncDone(st, note) == [st EXCEPT !.pc = "done", !.note = note]

SyncFailed(st, e) == [st EXCEPT !.pc = "failed", !.err = e]

\* The ids of the records that the chunk transactions of a run committed.
Committed(st) ==
  UNION { { st.results[i].metas[j].match_id : j \in 1..Len(st.results[i].metas) } :
            i \in {i \in 1..Len(st.fails) : st.fails[i] = 0} }

\* The error of a storage call, carried out of the run by `?`.
StorageError == DeadlockError("Storage", 0, "sqlx", -1)

\* The loop over the chunks moves on: the next chunk, or the end of the run.
NextChunkOrDone(st) ==
  IF st.k < Len(st.chunks) THEN [st EXCEPT !.pc = "fetch", !.k = @ + 1, !.metas = <<>>]
  ELSE SyncDone([st EXCEPT !.metas = <<>>], IF st.args.dry_run THEN "dry_run" ELSE "totals")

----------------------------------------------------------------------------
(* main.rs: `matches history` *)

\* A PlayerMatchHistoryEntry; `v` stands for each of its statistics.
HistoryEntry(account_id, match_id, start_time, v) ==
  [account_id |-> account_id, match_id |-> match_id,
   start_time |-> start_time, match_duration_s |-> v, v |-> v]

\* The PlayerInMatch built from an entry: seven scalars present, the others
\* absent, and the remaining statistics as the extra object.
HistoryPlayer(e) ==
  [account_id |-> e.account_id,
   sc |-> [c \in MatchPlayerCols |->
             IF c \in {"hero_id", "team", "kills", "deaths", "assists",
                       "networth", "last_hits"}
             THEN Some(e.v) ELSE None],
   extra |-> Some([k \in {"denies", "game_mode", "match_mode", "match_result",
                          "objectives_mask_team0", "objectives_mask_team1",
                          "hero_level"} |-> e.v])]

\* grouped: BTreeMap keyed by match_id; a record takes start and duration
\* from its first entry and its players in entry order; the records come
\* out in ascending match_id.
GroupHistory(entries) ==
  LET ids  == SortedSeq({ entries[i].match_id : i \in DOMAIN entries })
      of(id) == SelectSeq(entries, LAMBDA e : e.match_id = id)
      meta(id) ==
        [match_id |-> id,
         sc |-> [c \in MatchCols |->
                   IF c = "start_time" THEN Some(Head(of(id)).start_time)
                   ELSE IF c = "duration_s" THEN Some(Head(of(id)).match_duration_s)
                   ELSE None],
         info |-> None,
         players |-> Some([j \in 1..Len(of(id)) |-> HistoryPlayer(of(id)[j])])]
  IN  [i \in 1..Len(ids) |-> meta(ids[i])]

HistoryArgs(account_id, force_refetch, only_stored_history, dry_run) ==
  [account_id |-> account_id, force_refetch |-> force_refetch,
   only_stored_history |-> only_stored_history, dry_run |-> dry_run]

\* What the command did: whether it connected to the database, how many
\* upstream requests and ingestion calls it made, and how it returned.
Command(args, connected, fetches, ingests, ok, note) ==
  [op |-> "history", args |-> args, connected |-> connected,
   fetches |-> fetches, ingests |-> ingests, ok |-> ok, note |-> note]

NoCommand ==
  [Command(HistoryArgs(None, FALSE, FALSE, FALSE), FALSE, 0, 0, TRUE, "none")
     EXCEPT !.op = "none"]

\* The flags checked only after the connection and the fetch.
matches_history_late_conflict(D, args, conn_ok, res, failAt) ==
  IF ~conn_ok
  THEN [db |-> D, cmd |-> Command(args, FALSE, 0, 0, FALSE, "storage")]
  ELSE IF args.account_id = None
  THEN [db |-> D, cmd |-> Command(args, TRUE, 0, 0, FALSE, "no_account")]
  ELSE IF ~res.ok
  THEN [db |-> D, cmd |-> Command(args, TRUE, 1, 0, FALSE, "upstream")]
  ELSE IF args.force_refetch /\ args.only_stored_history
  THEN [db |-> D, cmd |-> Command(args, TRUE, 1, 0, FALSE, "conflict")]
  ELSE IF res.entries = <<>>
  THEN [db |-> D, cmd |-> Command(args, TRUE, 1, 0, TRUE, "no_entries")]
  ELSE IF args.dry_run
  THEN [db |-> D, cmd |-> Command(args, TRUE, 1, 0, TRUE, "dry_run")]
  ELSE LET r == ingest_matches_batch(D, GroupHistory(res.entries), failAt)
       IN  [db |-> r.db,
            cmd |-> Command(args, TRUE, 1, 1, r.ok,
                            IF r.ok THEN "persisted" ELSE "storage")]

matches_history_no_dry_run(D, args, conn_ok, res, failAt) ==
  IF args.force_refetch /\ args.only_stored_history
  THEN [db |-> D, cmd |-> Command(args, FALSE, 0, 0, FALSE, "conflict")]
  ELSE IF ~conn_ok
  THEN [db |-> D, cmd |-> Command(args, FALSE, 0, 0, FALSE, "storage")]
  ELSE IF args.account_id = None
  THEN [db |-> D, cmd |-> Command(args, TRUE, 0, 0, FALSE, "no_account")]
  ELSE IF ~res.ok
  THEN [db |-> D, cmd |-> Command(args, TRUE, 1, 0, FALSE, "upstream")]
  ELSE IF res.entries = <<>>
  THEN [db |-> D, cmd |-> Command(args, TRUE, 1, 0, TRUE, "no_entries")]
  ELSE LET r == ingest_matches_batch(D, GroupHistory(res.entries), failAt)
       IN  [db |-> r.db,
            cmd |-> Command(args, TRUE, 1, 1, r.ok,
                            IF r.ok THEN "persisted" ELSE "storage")]

\* The History arm of async_main: `res` is the Result of
\* get_player_match_history, failAt the storage operation that fails in
\* ingest_matches_batch.  Yields the tables and what the command did.
matches_history(D, args, conn_ok, res, failAt) ==
  IF args.force_refetch /\ args.only_stored_history
  THEN [db |-> D, cmd |-> Command(args, FALSE, 0, 0, FALSE, "conflict")]
  ELSE IF ~conn_ok
  THEN [db |-> D, cmd |-> Command(args, FALSE, 0, 0, FALSE, "storage")]
  ELSE IF args.account_id = None
  THEN [db |-> D, cmd |-> Command(args, TRUE, 0, 0, FALSE, "no_account")]
  ELSE IF ~res.ok
  THEN [db |-> D, cmd |-> Command(args, TRUE, 1, 0, FALSE, "upstream")]
  ELSE IF res.entries = <<>>
  THEN [db |-> D, cmd |-> Command(args, TRUE, 1, 0, TRUE, "no_entries")]
  ELSE IF args.dry_run
  THEN [db |-> D, cmd |-> Command(args, TRUE, 1, 0, TRUE, "dry_run")]
  ELSE LET r == ingest_matches_batch(D, GroupHistory(res.entries), failAt)
       IN  [db |-> r.db,
            cmd |-> Command(args, TRUE, 1, 1, r.ok,
                            IF r.ok THEN "persisted" ELSE "storage")]

----------------------------------------------------------------------------
(* Bounds and the inputs drawn within them *)

MaxMatchId == 2

MaxAccountId == 2

MaxVal == 2

MaxBatch == 2

MatchIds == 1..MaxMatchId

AccountIds == 1..MaxAccountId

Vals == 1..MaxVal

\* Sequences over S of length 1..n.
RECURSIVE SeqsUpTo(_, _)
SeqsUpTo(S, n) ==
  IF n = 0 THEN {}
  ELSE { <<x>> : x \in S } \cup SeqsUpTo(S, n - 1)
       \cup { Append(q, x) : q \in SeqsUpTo(S, n - 1), x \in S }

\* Scalar columns of a record as upstream sends them: the columns of `present`
\* carry v, the others are absent.
MatchScalars(present, v) ==
  [c \in MatchCols |-> IF c \in present THEN Some(v) ELSE None]

MatchColsTimed == {"start_time", "winner_team", "region"}

MatchScalarInputs ==
  { MatchScalars(present, v) :
      present \in {{}, MatchColsTimed, MatchCols \ MatchColsTimed, MatchCols},
      v \in Vals }
  \cup { MatchScalars({"start_time"}, -1) }

\* Records that carry scalars only (include_info and include_players off).
ScalarMetas ==
  { [match_id |-> 1, sc |-> sc, info |-> None, players |-> None] :
      sc \in MatchScalarInputs }

NoProfile == [cols |-> AllNull(ProfileCols), last_updated |-> None]

NoPayload ==
  [account_id |-> 0, steamid64 |-> <<>>, profile |-> NoProfile,
   latest_mmr |-> None, hero_stats |-> <<>>]

----------------------------------------------------------------------------
(* Concurrent ingest_matches_batch transactions.  Each run has its own     *)
(* connection; PostgreSQL runs the transactions at READ COMMITTED: a        *)
(* statement sees what is committed when it runs and what its own           *)
(* transaction wrote, a row a transaction has written stays locked until    *)
(* that transaction ends, and a statement that needs a locked row waits.    *)

\* The two runs.
Runs == {1, 2}

\* A transaction: the statements of its batch, how many of them have run,
\* and the rows it has written (and holds locked), table by table.
NoTx == [pc |-> "idle", stmts |-> <<>>, n |-> 0, rows |-> EmptyDb]

NoTxs == [r \in Runs |-> NoTx]

\* The tables ingest_matches_batch writes.
TxTables == {"matches", "players", "match_players"}

\* The conflict target of each table's ON CONFLICT clause.
RowKey(t, r) ==
  CASE t = "matches"       -> <<r.match_id>>
    [] t = "players"       -> <<r.account_id>>
    [] t = "match_players" -> <<r.match_id, r.account_id>>

StmtTable(s) ==
  CASE s.kind = "match"        -> "matches"
    [] s.kind = "stub"         -> "players"
    [] s.kind = "match_player" -> "match_players"

StmtKey(s) ==
  CASE s.kind = "match"        -> <<s.m.match_id>>
    [] s.kind = "stub"         -> <<s.p.account_id>>
    [] s.kind = "match_player" -> <<s.m.match_id, s.p.account_id>>

\* What a transaction sees: the committed tables with its own rows on top.
\* The same overlay is what its commit leaves committed.
View(D, rows) ==
  [t \in DOMAIN D |->
     IF t \in TxTables
     THEN {r \in D[t] : \A w \in rows[t] : RowKey(t, w) # RowKey(t, r)}
          \cup rows[t]
     ELSE D[t]]

\* The transaction has written, and holds, the row statement s is about.
HoldsRow(tx, s) ==
  \E w \in tx.rows[StmtTable(s)] : RowKey(StmtTable(s), w) = StmtKey(s)

\* The transaction after its next statement ran against the committed
\* tables D.  ON CONFLICT DO NOTHING on an existing row writes nothing.
TxExec(D, tx) ==
  LET s == tx.stmts[tx.n + 1]
      t == StmtTable(s)
      V == View(D, tx.rows)
      W == ExecMatchStmt(V, s)
      nothing == s.kind = "stub" /\ \E r \in V[t] : RowKey(t, r) = StmtKey(s)
  IN  [tx EXCEPT
         !.n = @ + 1,
         !.rows[t] = IF nothing THEN @
                     ELSE {w \in @ : RowKey(t, w) # StmtKey(s)}
                          \cup {r \in W[t] : RowKey(t, r) = StmtKey(s)}]

----------------------------------------------------------------------------
(* main.rs: the player lookup *)

\* The three upstream lookups that tokio::join! runs.
LookupParts == {"profile", "mmr", "hero_stats"}

\* The Result of one of them: a list, or an error.
LookupOk(v) == [ok |-> TRUE, err |-> NoError, v |-> v]

LookupErr(e) == [ok |-> FALSE, err |-> e, v |-> <<>>]

\* An entry of the score history as upstream returns it.
MmrEntry(account_id, m) == [account_id |-> account_id, m |-> m]

\* ui::latest_mmr_for: the entry of the account with the largest
\* (start_time, match_id); max_by_key returns the last of equal maxima.
latest_mmr_for(all, account_id) ==
  LET mine == SelectSeq(all, LAMBDA e : e.account_id = account_id)
      key(i) == <<mine[i].m.start_time, Unwrap(mine[i].m.sc["match_id"])>>
      below(a, b) == a[1] < b[1] \/ (a[1] = b[1] /\ a[2] < b[2])
      maxima == {i \in 1..Len(mine) : \A j \in 1..Len(mine) : ~below(key(i), key(j))}
  IN  IF mine = <<>> THEN None
      ELSE Some(mine[CHOOSE i \in maxima : \A j \in maxima : j <= i].m)

\* bail!(...): an error that is no DeadlockError.
Bail(msg) == DeadlockError("Message", 0, msg, -1)

\* The payload built from the three results, with a warning for each failed
\* score or hero lookup; a failed score lookup ends the command like a
\* failed profile lookup.
lookup_results_strict(account_id, res) ==
  LET p == res["profile"]
      warnings == {part \in {"mmr", "hero_stats"} : ~res[part].ok}
  IN  IF p.ok /\ p.v # <<>> /\ res["mmr"].ok
      THEN [ok |-> TRUE, err |-> NoError, warnings |-> warnings,
            payload |->
              [account_id |-> account_id,
               steamid64  |-> account_id_to_steamid64(account_id),
               profile    |-> Head(p.v),
               latest_mmr |-> latest_mmr_for(res["mmr"].v, account_id),
               hero_stats |-> res["hero_stats"].v]]
      ELSE [ok |-> FALSE, warnings |-> {}, payload |-> NoPayload,
            err |-> IF ~res["mmr"].ok /\ p.ok /\ p.v # <<>> THEN res["mmr"].err
                    ELSE IF p.ok THEN Bail("no_profile")
                    ELSE IF p.err.kind = "Http" /\ p.err.status = 404
                    THEN Bail("not_found")
                    ELSE p.err]

\* The payload built from the three results once tokio::join! returned them:
\* an empty or failed profile lookup ends the command with an error, a
\* failed score or hero lookup leaves a warning and an absent part.
lookup_results(account_id, res) ==
  LET p == res["profile"]
      warnings == {part \in {"mmr", "hero_stats"} : ~res[part].ok}
  IN  IF p.ok /\ p.v # <<>>
      THEN [ok |-> TRUE, err |-> NoError, warnings |-> warnings,
            payload |->
              [account_id |-> account_id,
               steamid64  |-> account_id_to_steamid64(account_id),
               profile    |-> Head(p.v),
               latest_mmr |-> IF res["mmr"].ok
                              THEN latest_mmr_for(res["mmr"].v, account_id)
                              ELSE None,
               hero_stats |-> IF res["hero_stats"].ok
                              THEN res["hero_stats"].v ELSE <<>>]]
      ELSE [ok |-> FALSE, warnings |-> {}, payload |-> NoPayload,
            err |-> IF p.ok THEN Bail("no_profile")
                    ELSE IF p.err.kind = "Http" /\ p.err.status = 404
                    THEN Bail("not_found")
                    ELSE p.err]

\* One player lookup.  pc: "idle", "join" (the three lookups are under
\* way), "history" (the bundle is stored, the match history is next),
\* "done" (returned Ok), "failed" (returned Err).  `pending` holds the
\* lookups that have not completed, `res` the results of the others,
\* `order` the order they completed in, `writes` the number of storage
\* calls made.
NewLookup(account_id) ==
  [pc |-> "idle", account_id |-> account_id, pending |-> {},
   res |-> [part \in LookupParts |-> LookupOk(<<>>)], order |-> <<>>,
   payload |-> NoPayload, warnings |-> {}, writes |-> 0, err |-> NoError]

NoLookup == NewLookup(0)

NoCall ==
  [op |-> "none", metas |-> <<>>, payload |-> NoPayload, failAt |-> 0,
   ok |-> TRUE, rerun |-> FALSE, out |-> NoCounts, pout |-> NoIngestResult]

----------------------------------------------------------------------------
(* Actions of the storage layer *)

\* One call of db::ingest_matches_batch.  `rerun` records that the call
\* repeats, with the same input, the successful call just before it.
BatchCall(prev, metas, failAt, r) ==
  [op      |-> "ingest_matches_batch",
   metas   |-> metas,
   payload |-> NoPayload,
   failAt  |-> failAt,
   ok      |-> r.ok,
   rerun   |-> /\ r.ok
               /\ prev.ok
               /\ prev.op = "ingest_matches_batch"
               /\ prev.metas = metas,
   out     |-> r.out,
   pout    |-> NoIngestResult]

IngestMatchesBatch(metas, failAt) ==
  /\ failAt \in MatchFailPoints(metas)
  /\ LET r == ingest_matches_batch(db, metas, failAt)
     IN  /\ db' = r.db
         /\ call' = BatchCall(call, metas, failAt, r)
  /\ UNCHANGED <<rq, sync, cmd, txs, lookup>>

\* One call of db::ingest_player.
IngestPlayer(payload, failAt) ==
  /\ failAt \in PlayerFailPoints(payload)
  /\ LET r == ingest_player(db, payload, failAt)
     IN  /\ db' = r.db
         /\ call' = [op      |-> "ingest_player",
                     metas   |-> <<>>,
                     payload |-> payload,
                     failAt  |-> failAt,
                     ok      |-> r.ok,
                     rerun   |-> /\ r.ok
                                 /\ call.ok
                                 /\ call.op = "ingest_player"
                                 /\ call.payload = payload,
                     out     |-> NoCounts,
                     pout    |-> r.out]
  /\ UNCHANGED <<rq, sync, cmd, txs, lookup>>

\* pool.begin() of run r's next chunk.
TxBegin(r, metas) ==
  /\ txs[r].pc = "idle"
  /\ txs' = [txs EXCEPT ![r] = [pc |-> "open", stmts |-> MatchStmts(metas),
                                n |-> 0, rows |-> EmptyDb]]
  /\ UNCHANGED <<db, call, rq, sync, cmd, lookup>>

\* The next statement runs without waiting for the row another transaction
\* holds.
TxStatementNoWait(r) ==
  /\ txs[r].pc = "open" /\ txs[r].n < Len(txs[r].stmts)
  /\ txs' = [txs EXCEPT ![r] = TxExec(db, txs[r])]
  /\ UNCHANGED <<db, call, rq, sync, cmd, lookup>>

\* The next statement of run r's transaction runs, once no other
\* transaction holds its row.
TxStatement(r) ==
  /\ txs[r].pc = "open" /\ txs[r].n < Len(txs[r].stmts)
  /\ \A o \in Runs \ {r} : ~HoldsRow(txs[o], txs[r].stmts[txs[r].n + 1])
  /\ txs' = [txs EXCEPT ![r] = TxExec(db, txs[r])]
  /\ UNCHANGED <<db, call, rq, sync, cmd, lookup>>

\* tx.commit() after the last statement.
TxCommit(r) ==
  /\ txs[r].pc = "open" /\ txs[r].n = Len(txs[r].stmts)
  /\ db' = View(db, txs[r].rows)
  /\ txs' = [txs EXCEPT ![r] = NoTx]
  /\ UNCHANGED <<call, rq, sync, cmd, lookup>>

\* A storage operation fails (a deadlock victim included) and `?` drops
\* the transaction.
TxRollback(r) ==
  /\ txs[r].pc = "open"
  /\ txs' = [txs EXCEPT ![r] = NoTx]
  /\ UNCHANGED <<db, call, rq, sync, cmd, lookup>>

\* One call of steam::steamid64_to_account_id.
SteamIdToAccountId(id) ==
  /\ call' = [op |-> "steamid64_to_account_id", id |-> id,
              valid |-> validate_steamid64(id),
              acc |-> steamid64_to_account_id(id)]
  /\ UNCHANGED <<db, rq, sync, cmd, txs, lookup>>

\* One call of steam::account_id_to_steamid64.
AccountIdToSteamId(a) ==
  /\ call' = [op |-> "account_id_to_steamid64", account_id |-> a,
              id |-> account_id_to_steamid64(a)]
  /\ UNCHANGED <<db, rq, sync, cmd, txs, lookup>>

Init ==
  /\ db = EmptyDb
  /\ call = NoCall
  /\ rq = NoRequest
  /\ sync = NoSync
  /\ cmd = NoCommand
  /\ txs = NoTxs
  /\ lookup = NoLookup

----------------------------------------------------------------------------
(* Record scalars: ingest_matches_batch over scalar-only records *)

NextMatchScalars ==
  \E metas \in SeqsUpTo(ScalarMetas, MaxBatch) :
    \E failAt \in MatchFailPoints(metas) :
      IngestMatchesBatch(metas, failAt)

SpecMatchScalars == Init /\ [][NextMatchScalars]_vars

\* The row of match_id in a matches table (the table's key is match_id).
MatchRow(tbl, id) == CHOOSE r \in tbl : r.match_id = id

\* The value the last record of the batch that carries column c for match id
\* binds to it, or None when no record of the batch carries it.
LastIncoming(metas, id, c) ==
  LET carrying == {i \in 1..Len(metas) :
                     metas[i].match_id = id /\ metas[i].sc[c] # None}
  IN  IF carrying = {} THEN None
      ELSE LET last == CHOOSE i \in carrying : \A j \in carrying : j <= i
           IN  BindMatchScalars(metas[last])[c]

\* C2: record merge monotonicity.  Across every step, a scalar column of a
\* matches row that holds a non-null value still holds one afterwards; after
\* a committed ingest_matches_batch, a column for which the batch carried no
\* value keeps what was stored, and a column for which it carried a value
\* holds the (bound) value carried last.
C2_RecordMergeMonotone ==
  [][ /\ \A r \in db.matches :
           \E r2 \in db'.matches :
             /\ r2.match_id = r.match_id
             /\ \A c \in MatchCols : r.sc[c] # None => r2.sc[c] # None
      /\ (call'.op = "ingest_matches_batch" /\ call'.ok) =>
           \A i \in 1..Len(call'.metas) : \A c \in MatchCols :
             LET id       == call'.metas[i].match_id
                 incoming == LastIncoming(call'.metas, id, c)
                 stored   == IF \E r \in db.matches : r.match_id = id
                             THEN MatchRow(db.matches, id).sc[c] ELSE None
             IN  /\ \E r2 \in db'.matches : r2.match_id = id
                 /\ MatchRow(db'.matches, id).sc[c] =
                      (IF incoming = None THEN stored ELSE incoming)
    ]_vars

\* A committed upsert that carried start_time but no duration_s, on a row
\* that keeps the duration_s stored before and takes the new start_time.
C2_Witness ==
  /\ call.op = "ingest_matches_batch" /\ call.ok
  /\ Len(call.metas) = 1
  /\ call.metas[1].sc["duration_s"] = None
  /\ call.metas[1].sc["start_time"] = Some(2)
  /\ \E r \in db.matches :
       /\ r.match_id = call.metas[1].match_id
       /\ r.sc["duration_s"] = Some(1)
       /\ r.sc["start_time"] = Some(2)

----------------------------------------------------------------------------
(* Blobs: ingest_matches_batch over records that carry info and players    *)
(* with extra                                                              *)

BlobKeys == {"k1", "k2"}

\* JSON objects over BlobKeys whose values are all v.
BlobInputs == { [k \in keys |-> v] : keys \in SUBSET BlobKeys, v \in Vals }

BlobPlayer(extra) ==
  [account_id |-> 1, sc |-> AllNull(MatchPlayerCols), extra |-> extra]

\* One record: either with an info blob (or none) and no players, or without
\* info and with one player whose extra blob is present or absent.
BlobMetas ==
  { [match_id |-> 1, sc |-> AllNull(MatchCols), info |-> info, players |-> None] :
      info \in {None} \cup { Some(o) : o \in BlobInputs } }
  \cup
  { [match_id |-> 1, sc |-> AllNull(MatchCols), info |-> None,
     players |-> Some(<<BlobPlayer(extra)>>)] :
      extra \in {None} \cup { Some(o) : o \in BlobInputs } }

NextMatchBlobs ==
  \E m \in BlobMetas :
    \E failAt \in MatchFailPoints(<<m>>) :
      IngestMatchesBatch(<<m>>, failAt)

SpecMatchBlobs == Init /\ [][NextMatchBlobs]_vars

\* The blob a batch leaves when its blobs `incomings` (in order) are merged
\* into `stored` as a shallow union: the keys of all of them, each key with
\* the value of the last blob that has it.
RECURSIVE ShallowUnion(_, _)
ShallowUnion(stored, incomings) ==
  IF incomings = <<>> THEN stored
  ELSE LET inc == Head(incomings)
           u   == [k \in (DOMAIN stored) \cup (DOMAIN inc) |->
                     IF k \in DOMAIN inc THEN inc[k] ELSE stored[k]]
       IN  ShallowUnion(u, Tail(incomings))

\* The info blobs (absent ones left out) the batch carries for match id, and
\* the extra blobs it carries for sub-record (id, acc), in execution order.
RECURSIVE InfosFor(_, _)
InfosFor(metas, id) ==
  IF metas = <<>> THEN <<>>
  ELSE (IF Head(metas).match_id = id /\ Head(metas).info # None
        THEN <<CHOOSE o \in Head(metas).info : TRUE>> ELSE <<>>)
       \o InfosFor(Tail(metas), id)

RECURSIVE ExtrasOf(_, _)
ExtrasOf(ps, acc) ==
  IF ps = <<>> THEN <<>>
  ELSE (IF Head(ps).account_id = acc /\ Head(ps).extra # None
        THEN <<CHOOSE o \in Head(ps).extra : TRUE>> ELSE <<>>)
       \o ExtrasOf(Tail(ps), acc)

RECURSIVE ExtrasFor(_, _, _)
ExtrasFor(metas, id, acc) ==
  IF metas = <<>> THEN <<>>
  ELSE (IF Head(metas).match_id = id /\ Head(metas).players # None
        THEN ExtrasOf(CHOOSE ps \in Head(metas).players : TRUE, acc) ELSE <<>>)
       \o ExtrasFor(Tail(metas), id, acc)

\* The (match_id, account_id) keys of the sub-records a batch carries.
SubRecordKeys(metas) ==
  UNION { UNION { { <<metas[i].match_id, ps[j].account_id>> : j \in 1..Len(ps) } :
                  ps \in metas[i].players } :
          i \in 1..Len(metas) }

MatchPlayerRow(tbl, key) ==
  CHOOSE r \in tbl : r.match_id = key[1] /\ r.account_id = key[2]

\* C3: blob merge is a shallow union.  Across every step the key set of a
\* stored info_json / extra_json only grows; after a committed
\* ingest_matches_batch the blob of every record and sub-record the batch
\* carries is the shallow union of the blob stored before (empty for a new
\* row) with the incoming blobs: every key of either side, the incoming
\* value on a key both have, and the stored blob itself when the incoming
\* blob is absent.
C3_BlobShallowUnion ==
  [][ /\ \A r \in db.matches :
           \E r2 \in db'.matches :
             /\ r2.match_id = r.match_id
             /\ DOMAIN r.info_json \subseteq DOMAIN r2.info_json
      /\ \A r \in db.match_players :
           \E r2 \in db'.match_players :
             /\ r2.match_id = r.match_id /\ r2.account_id = r.account_id
             /\ DOMAIN r.extra_json \subseteq DOMAIN r2.extra_json
      /\ (call'.op = "ingest_matches_batch" /\ call'.ok) =>
           /\ \A i \in 1..Len(call'.metas) :
                LET id     == call'.metas[i].match_id
                    stored == IF \E r \in db.matches : r.match_id = id
                              THEN MatchRow(db.matches, id).info_json
                              ELSE EmptyObj
                IN  /\ \E r2 \in db'.matches : r2.match_id = id
                    /\ MatchRow(db'.matches, id).info_json =
                         ShallowUnion(stored, InfosFor(call'.metas, id))
           /\ \A key \in SubRecordKeys(call'.metas) :
                LET stored == IF \E r \in db.match_players :
                                   r.match_id = key[1] /\ r.account_id = key[2]
                              THEN MatchPlayerRow(db.match_players, key).extra_json
                              ELSE EmptyObj
                IN  /\ \E r2 \in db'.match_players :
                         r2.match_id = key[1] /\ r2.account_id = key[2]
                    /\ MatchPlayerRow(db'.match_players, key).extra_json =
                         ShallowUnion(stored, ExtrasFor(call'.metas, key[1], key[2]))
    ]_vars

\* A committed upsert whose incoming info is {k1: 2} on a record that then
\* holds {k1: 2, k2: 1}: k2 was stored before and is retained, k1 carries the
\* incoming value; and a sub-record whose extra blob has been merged too.
C3_Witness ==
  /\ call.op = "ingest_matches_batch" /\ call.ok
  /\ call.metas[1].info = Some([k \in {"k1"} |-> 2])
  /\ \E r \in db.matches :
       /\ r.match_id = 1
       /\ r.info_json = [k \in BlobKeys |-> IF k = "k1" THEN 2 ELSE 1]
  /\ \E r \in db.match_players : DOMAIN r.extra_json = BlobKeys

----------------------------------------------------------------------------
(* Chunks: ingest_matches_batch over chunks of records with nested players, *)
(* failing at every point where it can                                      *)

ChunkPlayer(acc) ==
  [account_id |-> acc, sc |-> AllNull(MatchPlayerCols), extra |-> None]

\* The first k account ids as a player list.
ChunkPlayers(k) == [j \in 1..k |-> ChunkPlayer(j)]

ChunkMetas ==
  { [match_id |-> id, sc |-> MatchScalars(MatchCols, 1), info |-> None,
     players |-> players] :
      id \in MatchIds,
      players \in {None} \cup { Some(ChunkPlayers(k)) : k \in AccountIds } }

NextChunk ==
  \E metas \in SeqsUpTo(ChunkMetas, MaxBatch) :
    \E failAt \in MatchFailPoints(metas) :
      IngestMatchesBatch(metas, failAt)

SpecChunk == Init /\ [][NextChunk]_vars

\* C5: chunk atomicity.  A call of ingest_matches_batch in which a storage
\* operation fails returns the error and leaves the committed tables exactly
\* as they were before the call; a call in which none fails returns Ok and
\* has committed every record, participant stub and sub-record of the chunk.
C5_ChunkAtomic ==
  [][ call'.op = "ingest_matches_batch" =>
        /\ call'.failAt # 0 => (~call'.ok /\ db' = db)
        /\ call'.failAt = 0 =>
             /\ call'.ok
             /\ \A i \in 1..Len(call'.metas) :
                  \E r \in db'.matches : r.match_id = call'.metas[i].match_id
             /\ \A key \in SubRecordKeys(call'.metas) :
                  /\ \E r \in db'.players : r.account_id = key[2]
                  /\ \E r \in db'.match_players :
                       r.match_id = key[1] /\ r.account_id = key[2]
    ]_vars

\* A chunk of two records that failed after the first record, its stub and
\* its sub-record had been written inside the transaction: none of them is
\* in the committed tables.
C5_Witness ==
  /\ call.op = "ingest_matches_batch" /\ ~call.ok
  /\ Len(call.metas) = 2
  /\ call.metas[1].players # None
  /\ call.failAt >= 5
  /\ call.failAt <= Len(MatchStmts(call.metas)) + 1
  /\ db = EmptyDb

----------------------------------------------------------------------------
(* Ingestion as a whole: ingest_player and ingest_matches_batch over small  *)
(* payloads that reach every statement                                      *)

Str(n) == [numeric |-> TRUE, n |-> n]

NotANumber == [numeric |-> FALSE, n |-> 0]

\* A SteamProfile: the mandatory strings are `name`, the optional ones `opt`.
Profile(name, opt, last_updated) ==
  [cols |-> [c \in ProfileCols |->
               IF c \in {"countrycode", "realname"} THEN opt ELSE Some(name)],
   last_updated |-> last_updated]

Profiles ==
  { Profile(1, None, None),
    Profile(1, None, Some(NotANumber)),
    Profile(1, None, Some(Str(1))),
    Profile(MaxVal, Some(1), Some(Str(MaxVal))) }

Mmr(start_time, v) == [start_time |-> start_time, sc |-> [c \in MmrCols |-> Some(v)]]

\* Start times -1 and 0 are bound to the same timestamp.
Mmrs == { Mmr(-1, 1), Mmr(0, MaxVal), Mmr(1, 1) }

Hero(hero_id, last_played, v) ==
  [account_id |-> 1, hero_id |-> hero_id, last_played |-> last_played,
   sc |-> [c \in HeroCols |-> Some(v)]]

Heroes == { Hero(1, None, 1), Hero(1, Some(-1), 1), Hero(1, Some(0), MaxVal) }

Payload(profile, latest_mmr, hero_stats) ==
  [account_id |-> 1, steamid64 |-> account_id_to_steamid64(1),
   profile |-> profile, latest_mmr |-> latest_mmr, hero_stats |-> hero_stats]

\* Payloads that vary the profile, the latest score or the hero list, and one
\* that carries all three.
Payloads ==
  { Payload(p, None, <<>>) : p \in Profiles }
  \cup { Payload(Profile(1, None, None), Some(m), <<>>) : m \in Mmrs }
  \cup { Payload(Profile(1, None, None), None, hs) : hs \in SeqsUpTo(Heroes, MaxBatch) }
  \cup { Payload(Profile(MaxVal, Some(1), Some(Str(MaxVal))), Some(Mmr(0, MaxVal)),
                 <<Hero(1, Some(-1), 1), Hero(1, Some(0), MaxVal)>>) }

IngestPlayerIn ==
  [account_id |-> 1, sc |-> AllNull(MatchPlayerCols),
   extra |-> Some([k \in {"k1"} |-> 1])]

IngestMetas ==
  { [match_id |-> 1, sc |-> AllNull(MatchCols), info |-> None, players |-> None],
    [match_id |-> 1, sc |-> MatchScalars(MatchColsTimed, 1),
     info |-> Some([k \in {"k1"} |-> 1]), players |-> None],
    [match_id |-> 1, sc |-> MatchScalars(MatchCols, MaxVal), info |-> None,
     players |-> Some(<<IngestPlayerIn>>)],
    [match_id |-> 1, sc |-> MatchScalars({"start_time"}, -1),
     info |-> Some([k \in {"k2"} |-> MaxVal]),
     players |-> Some(<<ChunkPlayer(1)>>)] }

\* No failure, or the failure of the last of n statements.
LastFailPoint(n) == {0, n + 1}

\* A run of the program ingests players or match batches; the behaviours
\* checked here keep to one of the two.
NextIngest ==
  \/ /\ call.op # "ingest_player"
     /\ \E metas \in SeqsUpTo(IngestMetas, MaxBatch) :
          \E failAt \in LastFailPoint(Len(MatchStmts(metas))) :
            IngestMatchesBatch(metas, failAt)
  \/ /\ call.op # "ingest_matches_batch"
     /\ \E payload \in Payloads :
          \E failAt \in LastFailPoint(Len(PlayerIngestStmts(payload))) :
            IngestPlayer(payload, failAt)

SpecIngest == Init /\ [][NextIngest]_vars

RowCounts(D) ==
  [t \in DOMAIN D |-> Cardinality(D[t])]

\* C1: idempotence.  When a successful ingestion (ingest_player or
\* ingest_matches_batch) is run again with the identical input and succeeds,
\* the second run leaves every table with the rows, and so the row counts and
\* the stored values, that the first run left.
C1_Idempotent ==
  [][ call'.rerun => (RowCounts(db') = RowCounts(db) /\ db' = db) ]_vars

\* A second successful run of an input that wrote rows to every table it
\* can reach: of ingest_player, and of ingest_matches_batch.
C1_Witness ==
  /\ call.rerun
  /\ call.op = "ingest_player"
  /\ db.players # {} /\ db.latest_mmr # {} /\ db.mmr_history # {}
  /\ db.hero_stats_current # {} /\ db.hero_stats_history # {}

MmrHistoryKey(r) == <<r.account_id, r.start_time>>

HeroHistoryKey(r) == <<r.account_id, r.hero_id, r.last_played>>

\* C4: history tables are append-only.  Across every step each stored row of
\* mmr_history and hero_stats_history is still stored, unmodified, and each
\* key has one row; an ingest_player in which no storage operation fails
\* returns Ok whether or not its history keys were stored already, and
\* afterwards each of its history keys has its row.
C4_HistoryAppendOnly ==
  [][ /\ db.mmr_history \subseteq db'.mmr_history
      /\ db.hero_stats_history \subseteq db'.hero_stats_history
      /\ \A r1, r2 \in db'.mmr_history :
           MmrHistoryKey(r1) = MmrHistoryKey(r2) => r1 = r2
      /\ \A r1, r2 \in db'.hero_stats_history :
           HeroHistoryKey(r1) = HeroHistoryKey(r2) => r1 = r2
      /\ (call'.op = "ingest_player" /\ call'.failAt = 0) =>
           /\ call'.ok
           /\ \A m \in call'.payload.latest_mmr :
                \E r \in db'.mmr_history :
                  MmrHistoryKey(r) =
                    <<call'.payload.account_id, TsFromEpochSecs(m.start_time)>>
           /\ \A i \in 1..Len(call'.payload.hero_stats) :
                \A lp \in call'.payload.hero_stats[i].last_played :
                  \E r \in db'.hero_stats_history :
                    HeroHistoryKey(r) =
                      <<call'.payload.account_id,
                        call'.payload.hero_stats[i].hero_id, TsFromEpochSecs(lp)>>
    ]_vars

\* A successful ingest_player whose score and whose hero snapshot both hit a
\* history key stored earlier with other values: the earlier rows are the
\* ones stored.
C4_Witness ==
  /\ call.op = "ingest_player" /\ call.ok
  /\ \E m \in call.payload.latest_mmr :
       \E r \in db.mmr_history :
         /\ MmrHistoryKey(r) = <<call.payload.account_id, TsFromEpochSecs(m.start_time)>>
         /\ r.sc # m.sc
  /\ \E i \in 1..Len(call.payload.hero_stats) :
       \E lp \in call.payload.hero_stats[i].last_played :
         \E r \in db.hero_stats_history :
           /\ HeroHistoryKey(r) =
                <<call.payload.account_id, call.payload.hero_stats[i].hero_id,
                  TsFromEpochSecs(lp)>>
           /\ r.snapshot_json # call.payload.hero_stats[i]

----------------------------------------------------------------------------
(* One get_json request against every mix of responses *)

\* The largest seconds count a Retry-After header carries here.
MaxHintSecs == 2

\* The latest HTTP date a Retry-After header carries here, in seconds.
MaxDateSecs == 4

RetryAfterHeaders ==
  {NoHeader, Header("bad", 0)}
  \cup { Header("secs", n) : n \in {0, MaxHintSecs} }
  \cup { Header("date", d) : d \in {1, MaxDateSecs} }

Responses ==
  {Response("net", 0, NoHeader, FALSE)}
  \cup { Response("http", 429, h, FALSE) : h \in RetryAfterHeaders }
  \cup { Response("http", s, NoHeader, FALSE) : s \in {404, 500} }
  \cup { Response("http", 200, NoHeader, ok) : ok \in BOOLEAN }

\* get_json is called.
StartRequest ==
  /\ rq.pc = "idle"
  /\ rq' = NewRequest(0)
  /\ UNCHANGED <<db, call, sync, cmd, txs, lookup>>

\* send() of the current attempt completes with `rsp`, and the loop body runs
\* to its `continue` or `return`, sleeps included.
GetJsonAttempt(rsp) ==
  /\ rq.pc = "run"
  /\ rq' = get_json_attempt(rq, rsp)
  /\ UNCHANGED <<db, call, sync, cmd, txs, lookup>>

NextHttp ==
  \/ StartRequest
  \/ \E rsp \in Responses : GetJsonAttempt(rsp)

SpecHttp == Init /\ [][NextHttp]_vars

Sends(st) == Len(SelectSeq(st.log, LAMBDA e : e.ev = "send"))

Sleeps(st) == SelectSeq(st.log, LAMBDA e : e.ev = "sleep")

\* The failure an attempt observes in its response, as the caller would
\* name it.
ObservedError(rsp, attempt) ==
  IF rsp.kind = "net" THEN DeadlockError("Other", 0, "send", attempt)
  ELSE IF rsp.status = 429 THEN DeadlockError("RateLimited", 429, "status", attempt)
  ELSE IF rsp.status \notin 200..299 THEN DeadlockError("Http", rsp.status, "status", attempt)
  ELSE DeadlockError("Other", 0, "json", attempt)

Failed(rsp) == ~(rsp.kind = "http" /\ rsp.status \in 200..299 /\ rsp.json_ok)

Transient(rsp) == rsp.kind = "net" \/ rsp.status = 429

\* C7: one request sends at most 4 attempts, one response each, whatever
\* the responses are; a request whose 4 attempts all failed is over and
\* returns the error its 4th attempt observed.
C7_RetryBudget ==
  /\ Sends(rq) <= 4
  /\ Len(rq.rsps) = Sends(rq)
  /\ (Sends(rq) = 4 /\ \A i \in 1..4 : Failed(rq.rsps[i])) =>
       /\ rq.pc = "done"
       /\ rq.result = {ResultErr(ObservedError(rq.rsps[4], 3))}

\* Four failed attempts that mix network failures and 429s, the last of
\* another kind than the first.
C7_Witness ==
  /\ rq.pc = "done" /\ Sends(rq) = 4
  /\ rq.rsps[1].kind = "net" /\ rq.rsps[2].status = 429
  /\ rq.rsps[3].kind = "net" /\ rq.rsps[4].status = 429
  /\ \E r \in rq.result : r.err.kind = "RateLimited"

\* The wait a Retry-After header asks for at clock `now`, in milliseconds:
\* a seconds count, or the time left until an HTTP date not yet passed.
WaitHint(h, now) ==
  IF h.t = "secs" THEN {1000 * h.v}
  ELSE IF h.t = "date" /\ 1000 * h.v >= now THEN {1000 * h.v - now}
  ELSE {}

\* C8: on a 429 whose Retry-After gives a wait (a seconds count, or an HTTP
\* date not yet passed), the attempt sleeps once, for exactly that wait, and
\* the delay of the next backoff sleep is what it was before the attempt;
\* the next attempt follows the sleep when the budget has one left.
C8_HintedWait ==
  [][ (/\ rq.pc = "run"
       /\ Len(rq'.rsps) = Len(rq.rsps) + 1
       /\ rq'.rsps[Len(rq'.rsps)].status = 429
       /\ WaitHint(rq'.rsps[Len(rq'.rsps)].retry_after, rq.now) # {})
      => \E w \in WaitHint(rq'.rsps[Len(rq'.rsps)].retry_after, rq.now) :
           /\ Len(rq'.log) = Len(rq.log) + 2
           /\ rq'.log[Len(rq'.log)].ev = "sleep"
           /\ rq'.log[Len(rq'.log)].ms = w
           /\ rq'.now = rq.now + w
           /\ rq'.delay = rq.delay
           /\ (Len(rq'.rsps) < 4 =>
                 rq'.pc = "run" /\ rq'.attempt = rq.attempt + 1)
    ]_vars

\* A 2-second hint was waited for between the first backoff sleep and the
\* second, which lasts 800 ms all the same; an HTTP-date hint was waited
\* for after them.
C8_Witness ==
  /\ Len(Sleeps(rq)) = 4
  /\ Sleeps(rq)[1].why = "network" /\ Sleeps(rq)[1].ms = 400
  /\ rq.rsps[2].retry_after.t = "secs"
  /\ Sleeps(rq)[2].why = "hint" /\ Sleeps(rq)[2].ms = 2000
  /\ Sleeps(rq)[3].why = "rate_limited" /\ Sleeps(rq)[3].ms = 800
  /\ rq.rsps[4].retry_after.t = "date"
  /\ Sleeps(rq)[4].why = "hint" /\ Sleeps(rq)[4].ms = 800

\* The sleeps of a request that no wait hint drove, in order.
BackoffSleeps(st) ==
  SelectSeq(st.log, LAMBDA e : e.ev = "sleep" /\ e.why # "hint")

\* C9: within one request the k-th sleep not driven by a wait hint lasts
\* 400 * 2^(k-1) ms, whether a 429 without a usable hint or a network
\* failure caused it, and there are at most three of them (400, 800, 1600);
\* each of the first three attempts that ends in a 429 without a usable hint
\* or in a network failure takes the next sleep of that one schedule.
C9_ExponentialBackoff ==
  /\ Len(BackoffSleeps(rq)) <= 3
  /\ \A k \in 1..Len(BackoffSleeps(rq)) :
       BackoffSleeps(rq)[k].ms = 400 * 2^(k - 1)
  /\ \A i \in 1..Len(rq.rsps) :
       (i <= 3 /\ Transient(rq.rsps[i])
          /\ WaitHint(rq.rsps[i].retry_after, rq.nows[i]) = {})
       => Len(BackoffSleeps(rq)) >=
            Cardinality({ j \in 1..i :
                            WaitHint(rq.rsps[j].retry_after, rq.nows[j]) = {} })

\* Three backoff sleeps of 400, 800 and 1600 ms, caused by a 429 without a
\* header, a network failure and a 429 whose HTTP date has passed.
C9_Witness ==
  /\ Len(BackoffSleeps(rq)) = 3
  /\ BackoffSleeps(rq)[1].why = "rate_limited"
  /\ BackoffSleeps(rq)[2].why = "network"
  /\ BackoffSleeps(rq)[3].why = "rate_limited"
  /\ BackoffSleeps(rq)[3].ms = 1600
  /\ rq.rsps[3].retry_after.t = "date"

\* C10: a request whose attempt gets a decodable 2xx returns that response
\* as Ok, whatever failed before it in the request; a 429 or a network
\* failure is returned to the caller only by a request that made all 4
\* attempts.
C10_TransientAbsorbed ==
  rq.pc = "done" =>
    /\ ~Failed(rq.rsps[Len(rq.rsps)]) =>
         rq.result = {ResultOk(Len(rq.rsps) - 1)}
    /\ \A r \in rq.result :
         (~r.ok /\ (r.err.kind = "RateLimited" \/ r.err.from = "send")) =>
           Sends(rq) = 4

\* Three network failures, three backoff sleeps, and the 4th attempt's
\* response returned as Ok.
C10_Witness ==
  /\ rq.pc = "done" /\ Len(rq.rsps) = 4
  /\ \A i \in 1..3 : rq.rsps[i].kind = "net"
  /\ Len(Sleeps(rq)) = 3
  /\ rq.result = {ResultOk(3)}

\* C11: an attempt that gets a status that is neither 2xx nor 429 ends the
\* request on the spot: the result is the Http error with that status, of
\* that attempt; the attempt sleeps nothing and no attempt follows it.
C11_FatalStatus ==
  [][ (/\ rq.pc = "run"
       /\ Len(rq'.rsps) = Len(rq.rsps) + 1
       /\ rq'.rsps[Len(rq'.rsps)].kind = "http"
       /\ rq'.rsps[Len(rq'.rsps)].status \notin (200..299) \cup {429})
      => /\ rq'.pc = "done"
         /\ rq'.result =
              {ResultErr(DeadlockError("Http", rq'.rsps[Len(rq'.rsps)].status,
                                       "status", Len(rq.rsps)))}
         /\ Sleeps(rq') = Sleeps(rq)
         /\ rq'.now = rq.now
         /\ Sends(rq') = Sends(rq) + 1
    ]_vars

\* A 500 on the third attempt, after two retried failures: the request is
\* over with Http 500 after three sends and two sleeps.
C11_Witness ==
  /\ rq.pc = "done" /\ Len(rq.rsps) = 3
  /\ rq.rsps[3].status = 500
  /\ Sends(rq) = 3 /\ Len(Sleeps(rq)) = 2
  /\ \E r \in rq.result : r.err.kind = "Http" /\ r.err.status = 500

----------------------------------------------------------------------------
(* Runs of `matches sync`, one after another on the same database *)

\* The largest match id a run handles here.
MaxSyncId == 4

\* A record as upstream returns it for a requested id.
SyncMeta(id) ==
  [match_id |-> id, sc |-> AllNull(MatchCols), info |-> None, players |-> None]

FetchOk(metas) == [ok |-> TRUE, err |-> NoError, metas |-> metas]

FetchErr(e) == [ok |-> FALSE, err |-> e, metas |-> <<>>]

MetasOf(chunk, have) ==
  LET ids == SelectSeq(chunk, LAMBDA id : id \in have)
  IN  [i \in 1..Len(ids) |-> SyncMeta(ids[i])]

\* What get_matches_metadata can return for a chunk: the records of all the
\* requested ids or of all but the first, or one of get_json's errors.
FetchResults(chunk) ==
  { FetchOk(MetasOf(chunk, have)) :
      have \in {Range(chunk), Range(chunk) \ {Head(chunk)}} }
  \cup { FetchErr(DeadlockError("Http", s, "status", 0)) : s \in {404, 500} }
  \cup { FetchErr(DeadlockError("RateLimited", 429, "status", MaxAttempts - 1)) }

SyncInputs ==
  { SyncArgs(ids, None, None, None, limit, batch_size, dry_run) :
      ids \in {<<>>, <<3, 1, 3, 2>>},
      limit \in {2, 3},
      batch_size \in {0, 2},
      dry_run \in BOOLEAN }
  \cup { SyncArgs(<<>>, Some(1), None, None, 2, 2, FALSE) }
  \cup { SyncArgs(ids, None, None, None, 0, 2, FALSE) : ids \in {<<>>, <<1>>} }

MmrResults == {MmrOk(<<4, 1>>), MmrErr}

\* The command starts, and a failed get_mmr ends it with that error.
SyncResolveStrict(args, conn_ok, mmr, max_ok) ==
  /\ sync.pc \in {"idle", "done", "failed"}
  /\ LET r  == ResolveCandidates(db, args, mmr, max_ok)
         st == [NewSync(args) EXCEPT
                  !.warned = r.warned,
                  !.mmr = IF args.account_id # None THEN mmr ELSE MmrErr,
                  !.max_failed = r.max_failed,
                  !.candidates = r.candidates]
     IN  IF ~conn_ok THEN sync' = SyncFailed(NewSync(args), StorageError)
         ELSE IF r.warned THEN sync' = SyncFailed(st, mmr.err)
         ELSE /\ Range(r.candidates) \subseteq 1..MaxSyncId
              /\ sync' = IF r.none THEN SyncDone(st, "no_ids")
                         ELSE [st EXCEPT !.pc = "dedup"]
  /\ UNCHANGED <<db, call, rq, cmd, txs, lookup>>

\* The command starts: connect, migrate, and the candidates are resolved.
SyncResolve(args, conn_ok, mmr, max_ok) ==
  /\ sync.pc \in {"idle", "done", "failed"}
  /\ LET r  == ResolveCandidates(db, args, mmr, max_ok)
         st == [NewSync(args) EXCEPT
                  !.warned = r.warned,
                  !.mmr = IF args.account_id # None THEN mmr ELSE MmrErr,
                  !.max_failed = r.max_failed,
                  !.rerun_of = IF sync.pc = "failed" /\ sync.args = args
                               THEN Committed(sync) ELSE {},
                  !.candidates = r.candidates]
     IN  IF ~conn_ok THEN sync' = SyncFailed(NewSync(args), StorageError)
         ELSE /\ Range(r.candidates) \subseteq 1..MaxSyncId
              /\ sync' = IF r.none THEN SyncDone(st, "no_ids")
                         ELSE [st EXCEPT !.pc = "dedup"]
  /\ UNCHANGED <<db, call, rq, cmd, txs, lookup>>

SyncDedupNoReturn(query_ok) ==
  /\ sync.pc = "dedup"
  /\ LET residual == Retain(sync.candidates,
                            ExistingIds(db, sync.candidates, query_ok))
         st == [sync EXCEPT !.residual = residual,
                            !.dedup_ok = query_ok,
                            !.chunks = Chunks(residual, sync.args.batch_size)]
     IN  sync' = NextChunkOrDone(st)
  /\ UNCHANGED <<db, call, rq, cmd, txs, lookup>>

\* The existing-ids query returns, the candidates are filtered and chunked.
SyncDedup(query_ok) ==
  /\ sync.pc = "dedup"
  /\ LET residual == Retain(sync.candidates,
                            ExistingIds(db, sync.candidates, query_ok))
         st == [sync EXCEPT !.residual = residual,
                            !.dedup_ok = query_ok,
                            !.chunks = Chunks(residual, sync.args.batch_size)]
     IN  sync' = IF residual = <<>> THEN SyncDone(st, "nothing_to_do")
                 ELSE NextChunkOrDone(st)
  /\ UNCHANGED <<db, call, rq, cmd, txs, lookup>>

\* The run after get_matches_metadata of chunk k returned `res`: a 404 is an
\* empty result, another error ends the run, a dry run only reports.
SyncFetched(run, res) ==
  LET st == [run EXCEPT !.requested = Append(@, run.chunks[run.k]),
                        !.results = Append(@, res)]
      not_found == res.err.kind = "Http" /\ res.err.status = 404
  IN  IF ~res.ok /\ ~not_found THEN SyncFailed(st, res.err)
      ELSE IF run.args.dry_run THEN NextChunkOrDone(st)
      ELSE [st EXCEPT !.pc = "ingest", !.metas = res.metas]

SyncFetchAhead(res) ==
  /\ sync.pc = "fetch"
  /\ LET st == [sync EXCEPT !.requested = Append(@, sync.chunks[sync.k]),
                            !.results = Append(@, res)]
         not_found == res.err.kind = "Http" /\ res.err.status = 404
     IN  sync' = IF ~res.ok /\ ~not_found THEN SyncFailed(st, res.err)
                 ELSE IF sync.args.dry_run \/ sync.k < Len(sync.chunks)
                 THEN NextChunkOrDone(st)
                 ELSE [st EXCEPT !.pc = "ingest", !.metas = res.metas]
  /\ UNCHANGED <<db, call, rq, cmd, txs, lookup>>

SyncFetchStrict(res) ==
  /\ sync.pc = "fetch"
  /\ LET st == [sync EXCEPT !.requested = Append(@, sync.chunks[sync.k]),
                            !.results = Append(@, res)]
     IN  sync' = IF ~res.ok THEN SyncFailed(st, res.err)
                 ELSE IF sync.args.dry_run THEN NextChunkOrDone(st)
                 ELSE [st EXCEPT !.pc = "ingest", !.metas = res.metas]
  /\ UNCHANGED <<db, call, rq, cmd, txs, lookup>>

\* get_matches_metadata of chunk k returns `res`.
SyncFetch(res) ==
  /\ sync.pc = "fetch"
  /\ sync' = SyncFetched(sync, res)
  /\ UNCHANGED <<db, call, rq, cmd, txs, lookup>>

SyncIngestSwapTotals(failAt) ==
  /\ sync.pc = "ingest"
  /\ failAt \in MatchFailPoints(sync.metas)
  /\ LET r == ingest_matches_batch(db, sync.metas, failAt)
         st == [sync EXCEPT !.fails = Append(@, failAt)]
     IN  /\ db' = r.db
         /\ sync' = IF ~r.ok THEN SyncFailed(st, StorageError)
                    ELSE NextChunkOrDone(
                           [st EXCEPT
                              !.total_matches = @ + r.out.match_players_upserted,
                              !.total_players = @ + r.out.matches_upserted])
  /\ UNCHANGED <<call, rq, cmd, txs, lookup>>

SyncIngestIgnoreErr(failAt) ==
  /\ sync.pc = "ingest"
  /\ failAt \in MatchFailPoints(sync.metas)
  /\ LET r == ingest_matches_batch(db, sync.metas, failAt)
         st == [sync EXCEPT !.fails = Append(@, failAt)]
     IN  /\ db' = r.db
         /\ sync' = NextChunkOrDone(
                      [st EXCEPT
                         !.total_matches = @ + r.out.matches_upserted,
                         !.total_players = @ + r.out.match_players_upserted])
  /\ UNCHANGED <<call, rq, cmd, txs, lookup>>

\* ingest_matches_batch of the fetched chunk returns.
SyncIngest(failAt) ==
  /\ sync.pc = "ingest"
  /\ failAt \in MatchFailPoints(sync.metas)
  /\ LET r == ingest_matches_batch(db, sync.metas, failAt)
         st == [sync EXCEPT !.fails = Append(@, failAt)]
     IN  /\ db' = r.db
         /\ sync' = IF ~r.ok THEN SyncFailed(st, StorageError)
                    ELSE NextChunkOrDone(
                           [st EXCEPT
                              !.total_matches = @ + r.out.matches_upserted,
                              !.total_players = @ + r.out.match_players_upserted])
  /\ UNCHANGED <<call, rq, cmd, txs, lookup>>

NextSync ==
  \/ \E args \in SyncInputs, conn_ok \in BOOLEAN, max_ok \in BOOLEAN :
       \E mmr \in (IF args.account_id = None THEN {MmrErr} ELSE MmrResults) :
         SyncResolve(args, conn_ok, mmr, max_ok)
  \/ \E query_ok \in BOOLEAN : SyncDedup(query_ok)
  \/ /\ sync.pc = "fetch"
     /\ \E res \in FetchResults(sync.chunks[sync.k]) : SyncFetch(res)
  \/ /\ sync.pc = "ingest"
     /\ \E failAt \in MatchFailPoints(sync.metas) : SyncIngest(failAt)

SpecSync == Init /\ [][NextSync]_vars

\* C6: dedup correctness.  The residual handed to the fetcher is the
\* candidate list without the ids stored in the matches table, in the
\* candidates' order; a run ends as up to date only when every candidate is
\* stored; and no id of a requested chunk is stored when it is requested.
C6_DedupExact ==
  /\ (sync.pc = "fetch" /\ sync.requested = <<>>) =>
       sync.residual =
         SelectSeq(sync.candidates, LAMBDA id : id \notin StoredIds(db))
  /\ (sync.pc = "done" /\ sync.note = "nothing_to_do") =>
       Range(sync.candidates) \subseteq StoredIds(db)
  /\ sync.pc = "ingest" =>
       \A id \in Range(sync.chunks[sync.k]) : id \notin StoredIds(db)


NotFound(res) == ~res.ok /\ res.err.kind = "Http" /\ res.err.status = 404

\* The run has moved from chunk k on: to the request of chunk k+1, or to its
\* successful end after the last chunk.
MovedOn(st, nxt) ==
  IF st.k < Len(st.chunks)
  THEN nxt.pc = "fetch" /\ nxt.k = st.k + 1
  ELSE nxt.pc = "done" /\ nxt.note \in {"totals", "dry_run"}

\* C12: partial-chunk tolerance.  A 404 for chunk i does not fail the run
\* and gives the chunk no record: a dry run moves on to the next chunk, any
\* other run stores the empty result, which changes no table and no total
\* and, when no storage operation fails, moves on to the next chunk too; a
\* run that ends with totals has requested and ingested every chunk.
C12_NotFoundTolerated ==
  [][ /\ (Len(sync'.results) = Len(sync.results) + 1
          /\ NotFound(sync'.results[Len(sync'.results)]))
         => /\ sync'.pc # "failed"
            /\ sync'.metas = <<>>
            /\ IF sync.args.dry_run THEN MovedOn(sync, sync')
               ELSE sync'.pc = "ingest" /\ sync'.k = sync.k
      /\ (Len(sync'.fails) = Len(sync.fails) + 1
          /\ NotFound(sync.results[Len(sync.results)]))
         => /\ db' = db
            /\ sync'.total_matches = sync.total_matches
            /\ sync'.total_players = sync.total_players
            /\ sync'.fails[Len(sync'.fails)] = 0 => MovedOn(sync, sync')
      /\ (sync'.pc = "done" /\ sync'.note = "totals")
         => /\ sync'.requested = sync'.chunks
            /\ Len(sync'.fails) = Len(sync'.chunks)
    ]_vars

\* A run of three chunks whose first got a 404 and stored nothing, and
\* whose later chunks were fetched and stored: it ended with totals.
C12_Witness ==
  /\ sync.pc = "done" /\ sync.note = "totals"
  /\ Len(sync.chunks) = 3
  /\ NotFound(sync.results[1])
  /\ sync.results[2].ok /\ sync.results[3].ok
  /\ sync.total_matches = 2
  /\ StoredIds(db) = Range(sync.chunks[2]) \cup Range(sync.chunks[3])


\* The ids of the records that the chunks fetched before chunk k returned.
FetchedBefore(st, k) ==
  UNION { { st.results[i].metas[j].match_id : j \in 1..Len(st.results[i].metas) } :
            i \in 1..(k - 1) }

\* C13: a failure of chunk k other than a 404 ends the run with that error.
\* A request that returns another error, or an ingestion in which a storage
\* operation fails, leaves the run failed with that error and the tables as
\* they were; a failed run requests and ingests nothing more; and the
\* records that the chunks before k returned are stored.
C13_ChunkFailureEndsRun ==
  [][ /\ (Len(sync'.results) = Len(sync.results) + 1
          /\ ~sync'.results[Len(sync'.results)].ok
          /\ ~NotFound(sync'.results[Len(sync'.results)]))
         => /\ sync'.pc = "failed"
            /\ sync'.err = sync'.results[Len(sync'.results)].err
            /\ db' = db
      /\ (Len(sync'.fails) = Len(sync.fails) + 1
          /\ sync'.fails[Len(sync'.fails)] # 0)
         => /\ sync'.pc = "failed"
            /\ sync'.err = StorageError
            /\ db' = db
      /\ sync.pc = "failed"
         => /\ db' = db
            /\ sync'.requested = <<>> /\ sync'.fails = <<>>
      /\ sync'.pc = "failed"
         => /\ sync'.requested = SubSeq(sync'.chunks, 1, Len(sync'.requested))
            /\ Len(sync'.requested) = sync'.k
            /\ Len(sync'.fails) <= sync'.k
            /\ (~sync'.args.dry_run /\ sync'.k > 0) =>
                 FetchedBefore(sync', sync'.k) \subseteq StoredIds(db')
    ]_vars

\* A run of three chunks that stored its first chunk and failed in the
\* second, once on the request and once in the transaction: the third chunk
\* was never requested and the first chunk's record is stored.
C13_Witness ==
  /\ sync.pc = "failed" /\ Len(sync.chunks) = 3 /\ sync.k = 2
  /\ sync.fails = <<0, 2>>
  /\ Len(sync.results[2].metas) = 1
  /\ Range(sync.chunks[1]) \subseteq StoredIds(db)
  /\ Range(sync.chunks[2]) \cap StoredIds(db) = {}
  /\ Len(sync.requested) = 2

----------------------------------------------------------------------------
(* Dry runs: sync runs and history commands on the same database *)

HistoryOk(entries) == [ok |-> TRUE, entries |-> entries]

HistoryErr == [ok |-> FALSE, entries |-> <<>>]

\* One `matches history` command, from its start to its return.
MatchesHistory(args, conn_ok, res, failAt) ==
  /\ failAt \in MatchFailPoints(GroupHistory(res.entries))
  /\ LET r == matches_history(db, args, conn_ok, res, failAt)
     IN  db' = r.db /\ cmd' = r.cmd
  /\ UNCHANGED <<call, rq, sync, txs, lookup>>

HistoryInputs ==
  { HistoryArgs(Some(1), FALSE, FALSE, dry_run) : dry_run \in BOOLEAN }

HistoryResults ==
  { HistoryErr, HistoryOk(<<>>),
    HistoryOk(<<HistoryEntry(1, 2, 1, 1)>>),
    HistoryOk(<<HistoryEntry(1, 3, 1, MaxVal), HistoryEntry(1, 1, 0, 1)>>) }

DrySyncInputs ==
  { SyncArgs(<<3, 1, 3, 2>>, None, None, None, 3, 2, dry_run) :
      dry_run \in BOOLEAN }

NextDryRun ==
  \/ \E args \in DrySyncInputs, conn_ok \in BOOLEAN :
       SyncResolve(args, conn_ok, MmrErr, TRUE)
  \/ \E query_ok \in BOOLEAN : SyncDedup(query_ok)
  \/ /\ sync.pc = "fetch"
     /\ \E res \in FetchResults(sync.chunks[sync.k]) : SyncFetch(res)
  \/ /\ sync.pc = "ingest"
     /\ \E failAt \in LastFailPoint(Len(MatchStmts(sync.metas))) : SyncIngest(failAt)
  \/ /\ sync.pc \in {"idle", "done", "failed"}
     /\ \E args \in HistoryInputs, conn_ok \in BOOLEAN, res \in HistoryResults :
          \E failAt \in LastFailPoint(Len(MatchStmts(GroupHistory(res.entries)))) :
            MatchesHistory(args, conn_ok, res, failAt)

SpecDryRun == Init /\ [][NextDryRun]_vars

\* C14: dry run.  No step of a sync run started with dry-run changes a
\* table or calls ingest_matches_batch, and such a run that ends normally
\* has requested every chunk from upstream; a history command with dry-run
\* changes no table and calls no ingestion, and when it gets as far as
\* reporting what it would persist it has made its upstream request.
C14_DryRunWritesNothing ==
  [][ /\ (sync' # sync /\ sync'.args.dry_run)
         => /\ db' = db
            /\ sync'.fails = <<>>
            /\ sync'.pc # "ingest"
      /\ (sync'.pc = "done" /\ sync'.note = "dry_run")
         => /\ sync'.requested = sync'.chunks
            /\ Len(sync'.results) = Len(sync'.chunks)
      /\ (cmd' # cmd /\ cmd'.args.dry_run)
         => /\ db' = db
            /\ cmd'.ingests = 0
            /\ cmd'.note = "dry_run" => cmd'.fetches = 1
    ]_vars

\* On a database that stores records, players and sub-records, a dry-run
\* sync has requested its chunks and a dry-run history has fetched entries
\* it would persist.
C14_Witness ==
  /\ db.matches # {} /\ db.players # {} /\ db.match_players # {}
  /\ sync.pc = "done" /\ sync.note = "dry_run" /\ Len(sync.requested) = 2
  /\ \E i \in 1..2 : sync.results[i].ok /\ sync.results[i].metas # <<>>
  /\ cmd.note = "dry_run" /\ cmd.args.dry_run

----------------------------------------------------------------------------
(* Candidate resolution over explicit ids, MMR-derived ids and the window *)

ResolveInputs ==
  { SyncArgs(ids, account_id, since_id, until_id, limit, 2, FALSE) :
      ids \in {<<>>, <<3, 1, 3>>},
      account_id \in {None, Some(1)},
      since_id \in {None, Some(1)},
      until_id \in {None, Some(3)},
      limit \in {0, 2, 3} }

ResolveMmrResults == {MmrOk(<<4, 1>>), MmrOk(<<>>), MmrErr}

\* Connect, the existing-ids query, the upstream requests and the
\* ingestions succeed here; get_mmr and the MAX query may fail.
NextResolve ==
  \/ \E args \in ResolveInputs, max_ok \in BOOLEAN :
       \E mmr \in (IF args.account_id = None THEN {MmrErr}
                   ELSE ResolveMmrResults) :
         SyncResolve(args, TRUE, mmr, max_ok)
  \/ SyncDedup(TRUE)
  \/ /\ sync.pc = "fetch"
     /\ SyncFetch(FetchOk(MetasOf(sync.chunks[sync.k], Range(sync.chunks[sync.k]))))
  \/ /\ sync.pc = "ingest"
     /\ SyncIngest(0)

SpecResolve == Init /\ [][NextResolve]_vars

\* The ids that steps 1 and 2 of the resolution gave a run: its explicit
\* ids and, when it has an account and get_mmr succeeded, the match ids of
\* the MMR history.
ResolvedIds(st) ==
  Range(st.args.ids)
  \cup (IF st.args.account_id # None /\ st.mmr.ok THEN Range(st.mmr.ids) ELSE {})

\* C15: the candidate list handed to the dedup step is strictly ascending
\* (sorted, no duplicate), no longer than `limit`, and, when steps 1 and 2
\* resolved ids, it holds exactly the min(limit, n) smallest of the n
\* distinct resolved ids.
C15_CandidatesNormalised ==
  sync.pc = "dedup" =>
    /\ \A i \in 1..(Len(sync.candidates) - 1) :
         sync.candidates[i] < sync.candidates[i + 1]
    /\ Len(sync.candidates) <= sync.args.limit
    /\ ResolvedIds(sync) # {} =>
         /\ Range(sync.candidates) \subseteq ResolvedIds(sync)
         /\ Len(sync.candidates) =
              (IF Cardinality(ResolvedIds(sync)) < sync.args.limit
               THEN Cardinality(ResolvedIds(sync)) ELSE sync.args.limit)
         /\ \A c \in Range(sync.candidates) :
              \A x \in ResolvedIds(sync) \ Range(sync.candidates) : c < x

\* Explicit ids 3,1,3 and MMR-derived ids 4,1 with limit 2: the candidates
\* are 1,3.
C15_Witness ==
  /\ sync.pc = "dedup"
  /\ sync.args.ids = <<3, 1, 3>> /\ sync.mmr = MmrOk(<<4, 1>>)
  /\ sync.args.limit = 2
  /\ sync.candidates = <<1, 3>>

\* The ids from..to in ascending order.
IdsFromTo(from, to) == [i \in 1..(to - from + 1) |-> from + i - 1]

Least(a, b) == IF a < b THEN a ELSE b

\* C16: candidate fallback.  With no explicit ids, no account and no
\* `since`, the candidates are the consecutive ids max_stored+1 ..
\* max_stored+limit, cut off at `until` when given; and when steps 1 and 2
\* resolved ids, every candidate is one of them (no window id is added).
C16_WindowAfterMaxStored ==
  sync.pc = "dedup" =>
    /\ (sync.args.ids = <<>> /\ sync.args.account_id = None
        /\ sync.args.since_id = None)
       => sync.candidates =
            IdsFromTo(MaxStored(db) + 1,
                      IF sync.args.until_id = None
                      THEN MaxStored(db) + sync.args.limit
                      ELSE Least(MaxStored(db) + sync.args.limit,
                                 Unwrap(sync.args.until_id)))
    /\ ResolvedIds(sync) # {} =>
         Range(sync.candidates) \subseteq ResolvedIds(sync)

\* C17: when `since` is given and the sequential window is used (steps 1
\* and 2 resolved no id), the candidates are since, since+1, ... up to
\* `limit` ids or `until`: the first candidate is `since` itself.
C17_WindowStartsAtSince ==
  (sync.pc = "dedup" /\ ResolvedIds(sync) = {} /\ sync.args.since_id # None)
  => sync.candidates =
       IdsFromTo(Unwrap(sync.args.since_id),
                 IF sync.args.until_id = None
                 THEN Unwrap(sync.args.since_id) + sync.args.limit - 1
                 ELSE Least(Unwrap(sync.args.since_id) + sync.args.limit - 1,
                            Unwrap(sync.args.until_id)))

\* The two successful no-op endings of a run: "No IDs to fetch" and
\* "Nothing to do".
NoOpNotes == {"no_ids", "nothing_to_do"}

\* C18: NoCandidates and AlreadyUpToDate are successful no-ops.  A run that
\* ends with one of them carries no error, has issued no record-metadata
\* request and has made no ingestion call; a run whose candidates are empty
\* after resolution, or whose residual is empty after dedup, ends with one
\* of them; and a run reaches a request, an ingestion or the totals only
\* with a non-empty residual.
C18_NoOpEndings ==
  /\ (sync.pc = "done" /\ sync.note \in NoOpNotes)
     => /\ sync.err = NoError
        /\ sync.requested = <<>> /\ sync.results = <<>>
        /\ sync.fails = <<>>
        /\ sync.total_matches = 0 /\ sync.total_players = 0
        /\ sync.candidates = <<>> \/ sync.residual = <<>>
  /\ (sync.pc = "done" /\ (sync.candidates = <<>> \/ sync.residual = <<>>))
     => sync.note \in NoOpNotes
  /\ (sync.pc \in {"fetch", "ingest"} \/ sync.requested # <<>>
      \/ sync.fails # <<>>)
     => (sync.candidates # <<>> /\ sync.residual # <<>>)
  /\ (sync.pc = "failed" /\ sync.residual = <<>>)
     => sync = SyncFailed(NewSync(sync.args), StorageError)

\* A run over candidates that are all stored ends as up to date.
C18_Witness ==
  /\ sync.pc = "done" /\ sync.note = "nothing_to_do"
  /\ sync.candidates # <<>> /\ sync.residual = <<>>
  /\ Range(sync.candidates) \subseteq StoredIds(db)

\* The ids of a sequence of chunks, in order.
RECURSIVE Concat(_)
Concat(chunks) ==
  IF chunks = <<>> THEN <<>> ELSE Head(chunks) \o Concat(Tail(chunks))

\* `chunks` is the split of `seq`, in order, into ceil(n/b) consecutive
\* chunks of b = max(batch_size, 1) ids, the last one possibly shorter.
IsChunking(seq, batch_size, chunks) ==
  LET b == IF batch_size >= 1 THEN batch_size ELSE 1
      n == Len(seq)
  IN  /\ Concat(chunks) = seq
      /\ Len(chunks) = (n + b - 1) \div b
      /\ \A i \in 1..Len(chunks) :
           /\ Len(chunks[i]) \in 1..b
           /\ i < Len(chunks) => Len(chunks[i]) = b

MaxResidual == 5

\* C19: chunking.  The residual of n ids is split, in order, into ceil(n/b)
\* consecutive chunks with b = max(batch_size, 1), each of exactly b ids
\* except possibly the last, and each id is in exactly one chunk; the
\* requests issued are the chunks in order, one request per chunk, and a
\* run that ends normally has requested every chunk once.
C19_Chunking ==
  /\ \A n \in 0..MaxResidual, batch_size \in 0..(MaxBatch + 1) :
       IsChunking([i \in 1..n |-> i], batch_size,
                  Chunks([i \in 1..n |-> i], batch_size))
  /\ sync.pc \in {"fetch", "ingest", "done", "failed"} /\ sync.residual # <<>>
     => /\ IsChunking(sync.residual, sync.args.batch_size, sync.chunks)
        /\ \A i, j \in 1..Len(sync.residual) :
             sync.residual[i] = sync.residual[j] => i = j
        /\ Len(sync.requested) <= Len(sync.chunks)
        /\ \A i \in 1..Len(sync.requested) : sync.requested[i] = sync.chunks[i]
        /\ Len(sync.results) = Len(sync.requested)
        /\ sync.pc = "fetch" => Len(sync.requested) = sync.k - 1
        /\ sync.pc = "ingest" => Len(sync.requested) = sync.k
        /\ sync.pc = "done" => sync.requested = sync.chunks

\* A run over three ids with batch size 2 ended after requests of 2 and 1.
C19_Witness ==
  /\ sync.pc = "done" /\ sync.note = "totals"
  /\ Len(sync.residual) = 3 /\ sync.args.batch_size = 2
  /\ Len(sync.requested) = 2
  /\ Len(sync.requested[1]) = 2 /\ Len(sync.requested[2]) = 1

----------------------------------------------------------------------------
(* Participant rows under sub-record ingestion: ingest_player and
   ingest_matches_batch over the same accounts *)

StubPayloads ==
  { [Payload(p, None, <<>>) EXCEPT
       !.account_id = a, !.steamid64 = account_id_to_steamid64(a)] :
      p \in {Profile(1, None, Some(Str(1))),
             Profile(MaxVal, Some(1), Some(Str(MaxVal)))},
      a \in AccountIds }

StubMetas ==
  { [match_id |-> 1, sc |-> MatchScalars(MatchCols, 1), info |-> None,
     players |-> players] :
      players \in {None} \cup { Some(ChunkPlayers(k)) : k \in AccountIds } }

\* Batches of one record, and the batches of two that start with the record
\* without a participant list.
StubBatches ==
  { <<m>> : m \in StubMetas }
  \cup { <<m1, m2>> : m1 \in {m \in StubMetas : m.players = None},
                      m2 \in StubMetas }

NextStub ==
  \/ \E metas \in StubBatches :
       \E failAt \in MatchFailPoints(metas) :
         IngestMatchesBatch(metas, failAt)
  \/ \E payload \in StubPayloads :
       \E failAt \in LastFailPoint(Len(PlayerIngestStmts(payload))) :
         IngestPlayer(payload, failAt)

SpecStub == Init /\ [][NextStub]_vars

\* The account ids of the participants of a batch of records.
Participants(metas) ==
  UNION { { Unwrap(metas[i].players)[j].account_id :
              j \in 1..Len(Unwrap(metas[i].players)) } :
          i \in {i \in 1..Len(metas) : metas[i].players # None} }

\* The row of an account that only the stub insert has written.
StubRow(account_id) ==
  [account_id         |-> account_id,
   steamid64          |-> account_id_to_steamid64(account_id),
   prof               |-> AllNull(ProfileCols),
   profile_extra      |-> EmptyObj,
   profile_updated_at |-> None]

HasPlayer(D, account_id) == \E r \in D.players : r.account_id = account_id

\* C20: sub-record ingestion never overwrites a participant row.
\* ensure_player_stub leaves the database as it is when the account has a
\* row and adds the stub row otherwise; and after any ingest_matches_batch
\* every participant row that existed before the call is there with every
\* column unchanged, the only new rows being stubs of participants of the
\* batch that had no row.
C20_StubNeverOverwrites ==
  [][ /\ \A a \in AccountIds :
           EnsurePlayerStub(db, a) =
             IF HasPlayer(db, a) THEN db
             ELSE [db EXCEPT !.players = @ \cup {StubRow(a)}]
      /\ call'.op = "ingest_matches_batch"
         => /\ db.players \subseteq db'.players
            /\ \A r \in db'.players \ db.players :
                 /\ r = StubRow(r.account_id)
                 /\ r.account_id \in Participants(call'.metas)
                 /\ ~HasPlayer(db, r.account_id)
            /\ \A a \in Participants(call'.metas) :
                 call'.ok => HasPlayer(db', a) ]_vars

\* A batch with participants 1 and 2 has been ingested while account 1 had
\* a full profile row: that row is kept and account 2 has a stub.
C20_Witness ==
  /\ call.op = "ingest_matches_batch" /\ call.ok
  /\ Participants(call.metas) = {1, 2}
  /\ \E r \in db.players :
       r.account_id = 1 /\ r.prof # AllNull(ProfileCols)
  /\ StubRow(2) \in db.players


\* The number a string of decimal digits denotes.
RECURSIVE DigitsValue(_)
DigitsValue(ds) ==
  IF ds = <<>> THEN 0
  ELSE 10 * DigitsValue(SubSeq(ds, 1, Len(ds) - 1)) + ds[Len(ds)]

\* ds is the decimal string of 76561197960265728 + account_id, compared in
\* two halves that fit the integers of the checker.
IsOffsetPlus(ds, account_id) ==
  /\ Len(ds) = 17
  /\ DigitsValue(SubSeq(ds, 1, 8)) = 76561197
  /\ DigitsValue(SubSeq(ds, 9, 17)) = 960265728 + account_id

\* In the statements of a batch every sub-record upsert comes right after
\* the stub insert of the same participant.
StubBeforeSubRecord(metas) ==
  LET stmts == MatchStmts(metas)
  IN  \A i \in 1..Len(stmts) :
        stmts[i].kind = "match_player"
        => /\ i > 1
           /\ stmts[i - 1].kind = "stub"
           /\ stmts[i - 1].p.account_id = stmts[i].p.account_id

\* C21: referential invariant.  In every committed state each sub-record
\* row (match_id, account_id) has a participant row for account_id; the
\* stub insert precedes the sub-record upsert inside the transaction of the
\* batch; and a row that only the stub wrote carries the identity
\* 76561197960265728 + account_id.
C21_SubRecordHasParticipant ==
  /\ \A mp \in db.match_players :
       \E p \in db.players :
         /\ p.account_id = mp.account_id
         /\ IsOffsetPlus(p.steamid64, p.account_id)
  /\ \A a \in AccountIds : IsOffsetPlus(StubRow(a).steamid64, a)
  /\ call.op = "ingest_matches_batch" => StubBeforeSubRecord(call.metas)

\* A sub-record of account 2 is stored and account 2 never had a profile
\* ingested: its participant row is the stub.
C21_Witness ==
  /\ \E mp \in db.match_players : mp.account_id = 2
  /\ StubRow(2) \in db.players
  /\ call.op = "ingest_matches_batch" /\ call.ok

\* The number of nested sub-records of a batch of records.
RECURSIVE SubRecordCount(_)
SubRecordCount(metas) ==
  IF metas = <<>> THEN 0
  ELSE (IF Head(metas).players = None THEN 0
        ELSE Len(Unwrap(Head(metas).players)))
       + SubRecordCount(Tail(metas))

\* C22: a successful ingest_matches_batch returns three counts for the
\* chunk: the number of its records, the total number of nested
\* sub-records, and the number of distinct participant ids those
\* sub-records reference.
C22_IngestCounts ==
  (call.op = "ingest_matches_batch" /\ call.ok)
  => /\ call.out.matches_upserted = Len(call.metas)
     /\ call.out.match_players_upserted = SubRecordCount(call.metas)
     /\ call.out.players_upserted = Cardinality(Participants(call.metas))

----------------------------------------------------------------------------
(* Sub-record and current-snapshot rows under repeated upserts whose
   scalars come and go *)

\* Scalars of `cols`: the columns of `present` carry v, the others are null.
Scalars(cols, present, v) ==
  [c \in cols |-> IF c \in present THEN Some(v) ELSE None]

OverwriteHeroes ==
  { [account_id |-> 1, hero_id |-> 1, last_played |-> Some(0), sc |-> sc] :
      sc \in {Scalars(HeroCols, HeroCols, 1), Scalars(HeroCols, {}, 1),
              Scalars(HeroCols, {"kills"}, MaxVal)} }

OverwritePayloads ==
  { Payload(Profile(1, None, None), latest_mmr, hero_stats) :
      latest_mmr \in {None, Some(Mmr(0, 1)), Some(Mmr(0, MaxVal))},
      hero_stats \in {<<>>} \cup { <<h>> : h \in OverwriteHeroes } }

OverwriteMetas ==
  { [match_id |-> 1, sc |-> msc, info |-> None,
     players |-> Some(<<[account_id |-> 1, sc |-> sc, extra |-> None]>>)] :
      msc \in {AllNull(MatchCols), MatchScalars(MatchCols, 1)},
      sc \in {Scalars(MatchPlayerCols, MatchPlayerCols, 1),
              Scalars(MatchPlayerCols, {}, 1),
              Scalars(MatchPlayerCols, {"kills"}, MaxVal)} }

NextOverwrite ==
  \/ \E m \in OverwriteMetas :
       \E failAt \in LastFailPoint(Len(MatchStmts(<<m>>))) :
         IngestMatchesBatch(<<m>>, failAt)
  \/ \E payload \in OverwritePayloads :
       \E failAt \in LastFailPoint(Len(PlayerIngestStmts(payload))) :
         IngestPlayer(payload, failAt)

SpecOverwrite == Init /\ [][NextOverwrite]_vars

\* Statement i is the last sub-record upsert of its (match_id, account_id)
\* in the batch.
LastSubRecord(stmts, i) ==
  /\ stmts[i].kind = "match_player"
  /\ \A k \in (i + 1)..Len(stmts) :
       ~(/\ stmts[k].kind = "match_player"
         /\ stmts[k].m.match_id = stmts[i].m.match_id
         /\ stmts[k].p.account_id = stmts[i].p.account_id)

\* Statement i is the last current-row upsert of its hero in the payload.
LastHeroCurrent(stmts, i) ==
  /\ stmts[i].kind = "hero_current"
  /\ \A k \in (i + 1)..Len(stmts) :
       ~(stmts[k].kind = "hero_current" /\ stmts[k].h.hero_id = stmts[i].h.hero_id)

\* C23: sub-record and current-snapshot upserts fully overwrite scalars.
\* After a successful ingest_matches_batch every scalar of a match_players
\* row it upserted equals the incoming value; after a successful
\* ingest_player every scalar of the hero_stats_current rows and of the
\* latest_mmr row it upserted equals the incoming value; null when the
\* incoming field is absent, whatever the row held before.
C23_FullOverwrite ==
  [][ /\ (call'.op = "ingest_matches_batch" /\ call'.ok)
         => LET stmts == MatchStmts(call'.metas)
            IN  \A i \in 1..Len(stmts) :
                  LastSubRecord(stmts, i)
                  => \E r \in db'.match_players :
                       /\ r.match_id = stmts[i].m.match_id
                       /\ r.account_id = stmts[i].p.account_id
                       /\ r.sc = stmts[i].p.sc
      /\ (call'.op = "ingest_player" /\ call'.ok)
         => LET payload == call'.payload
                stmts   == PlayerIngestStmts(payload)
            IN  /\ \A i \in 1..Len(stmts) :
                     LastHeroCurrent(stmts, i)
                     => \E r \in db'.hero_stats_current :
                          /\ r.account_id = payload.account_id
                          /\ r.hero_id = stmts[i].h.hero_id
                          /\ r.sc = stmts[i].h.sc
                          /\ r.last_played =
                               {TsFromEpochSecs(s) : s \in stmts[i].h.last_played}
                /\ \A m \in payload.latest_mmr :
                     \E r \in db'.latest_mmr :
                       /\ r.account_id = payload.account_id
                       /\ r.sc = m.sc
                       /\ r.start_time = TsFromEpochSecs(m.start_time) ]_vars

\* The current row of hero 1 has null scalars after an ingestion whose
\* hero entry carried none, while the snapshot history still holds the
\* values an earlier ingestion stored; likewise the sub-record row.
C23_Witness ==
  /\ call.op = "ingest_player" /\ call.ok
  /\ call.payload.hero_stats # <<>>
  /\ call.payload.hero_stats[1].sc = AllNull(HeroCols)
  /\ \E r \in db.hero_stats_current :
       r.hero_id = 1 /\ r.sc = AllNull(HeroCols)
  /\ \E s \in db.hero_stats_history :
       s.hero_id = 1 /\ s.snapshot_json.sc["kills"] # None
  /\ \E r \in db.match_players : r.sc = AllNull(MatchPlayerCols)

\* Every scalar of `old` that is non-null is non-null in `new`.
KeepsNonNull(old, new) ==
  \A c \in DOMAIN old : old[c] # None => new[c] # None

MatchRowsKeepNonNull(D, E) ==
  \A r \in D.matches :
    \E q \in E.matches :
      q.match_id = r.match_id /\ KeepsNonNull(r.sc, q.sc)

LatestMmrRowsKeepNonNull(D, E) ==
  \A r \in D.latest_mmr :
    \E q \in E.latest_mmr :
      q.account_id = r.account_id /\ KeepsNonNull(r.sc, q.sc)

HeroCurrentRowsKeepNonNull(D, E) ==
  \A r \in D.hero_stats_current :
    \E q \in E.hero_stats_current :
      /\ q.account_id = r.account_id /\ q.hero_id = r.hero_id
      /\ KeepsNonNull(r.sc, q.sc)
      /\ r.last_played # None => q.last_played # None

\* C24, as stated: no upsert into a current table (hero_stats_current,
\* latest_mmr) or into the record table (matches) replaces a stored non-null
\* scalar with null.
C24_NoNullOverNonNull ==
  [][ /\ MatchRowsKeepNonNull(db, db')
      /\ LatestMmrRowsKeepNonNull(db, db')
      /\ HeroCurrentRowsKeepNonNull(db, db') ]_vars

\* C24, amended: no upsert into the record table replaces a stored non-null
\* scalar with null, and a latest_mmr row never holds a null scalar; the
\* scalars of a hero_stats_current row are those of the last ingestion,
\* null where its field was absent.
C24_RecordAndLatestKeepNonNull ==
  [][ /\ MatchRowsKeepNonNull(db, db')
      /\ LatestMmrRowsKeepNonNull(db, db')
      /\ \A r \in db'.latest_mmr : \A c \in MmrCols : r.sc[c] # None ]_vars

\* A record ingested without scalars over a stored record with scalars: the
\* stored scalars are kept, next to a latest_mmr row written twice.
C24_Witness ==
  /\ call.op = "ingest_matches_batch" /\ call.ok
  /\ call.metas[1].sc = AllNull(MatchCols)
  /\ \E r \in db.matches : r.match_id = 1 /\ 
       r.sc = BindMatchScalars([sc |-> MatchScalars(MatchCols, 1)])
  /\ \E r \in db.latest_mmr : r.sc = Mmr(0, MaxVal).sc
  /\ \E r \in db.mmr_history : r.sc = Mmr(0, 1).sc

\* Chunk i of the run has been completely handled: its request returned
\* records or a 404, and its ingestion transaction committed unless the run
\* is a dry run.
Handled(st, i) ==
  /\ i <= Len(st.results)
  /\ st.results[i].ok \/ NotFound(st.results[i])
  /\ IF st.args.dry_run THEN st.fails = <<>>
     ELSE i <= Len(st.fails) /\ st.fails[i] = 0

\* C25: chunks are processed strictly sequentially.  When the request of
\* chunk k is about to be issued every chunk before k has been completely
\* handled and nothing is held from it; while chunk k is being ingested its
\* request is the last one issued and the chunks before it are handled; so
\* a run has at most one request or one transaction under way, for the
\* chunk k it is at, and never an ingestion of a chunk not yet requested.
C25_Sequential ==
  (sync.residual # <<>> /\ sync.pc \in {"fetch", "ingest", "done", "failed"})
  => /\ sync.pc = "fetch"
        => /\ Len(sync.requested) = sync.k - 1
           /\ sync.metas = <<>>
           /\ \A i \in 1..(sync.k - 1) : Handled(sync, i)
     /\ sync.pc = "ingest"
        => /\ ~sync.args.dry_run
           /\ Len(sync.requested) = sync.k
           /\ Len(sync.fails) = sync.k - 1
           /\ \A i \in 1..(sync.k - 1) : Handled(sync, i)
     /\ Len(sync.fails) <= Len(sync.requested)
     /\ Len(sync.requested) - Len(sync.fails) <= 1 \/ sync.args.dry_run
     /\ \A i \in 1..Len(sync.requested) : sync.requested[i] = sync.chunks[i]
     /\ \A i \in 2..Len(sync.requested) : Handled(sync, i - 1)

\* The third chunk is about to be requested after two chunks were fetched
\* and committed.
C25_Witness ==
  /\ sync.pc = "fetch" /\ sync.k = 3
  /\ ~sync.args.dry_run
  /\ Len(sync.requested) = 2 /\ sync.fails = <<0, 0>>
  /\ sync.results[1].ok /\ sync.results[2].ok
  /\ Cardinality(StoredIds(db)) >= 2

----------------------------------------------------------------------------
(* `matches history` over every combination of its flags *)

HistoryFlagInputs ==
  { HistoryArgs(account_id, force_refetch, only_stored_history, dry_run) :
      account_id \in {None, Some(1)},
      force_refetch \in BOOLEAN,
      only_stored_history \in BOOLEAN,
      dry_run \in BOOLEAN }

NextHistory ==
  \E args \in HistoryFlagInputs, conn_ok \in BOOLEAN, res \in HistoryResults :
    \E failAt \in LastFailPoint(Len(MatchStmts(GroupHistory(res.entries)))) :
      MatchesHistory(args, conn_ok, res, failAt)

SpecHistory == Init /\ [][NextHistory]_vars

\* C26: input conflict.  A history command with both force-refetch and
\* only-stored-history set returns an error without connecting to the
\* database, without an upstream request, without an ingestion, and with
\* every table as it was; a command without the conflict is never rejected
\* for it.
C26_ConflictRejectedFirst ==
  [][ cmd'.op = "history"
      => IF cmd'.args.force_refetch /\ cmd'.args.only_stored_history
         THEN /\ ~cmd'.ok /\ cmd'.note = "conflict"
              /\ ~cmd'.connected
              /\ cmd'.fetches = 0 /\ cmd'.ingests = 0
              /\ db' = db
         ELSE cmd'.note # "conflict" ]_vars

\* A conflicting command was rejected on a database that earlier commands
\* had filled, with an account given.
C26_Witness ==
  /\ cmd.op = "history" /\ cmd.note = "conflict" /\ ~cmd.ok
  /\ cmd.args.force_refetch /\ cmd.args.only_stored_history
  /\ cmd.args.account_id # None /\ ~cmd.args.dry_run
  /\ ~cmd.connected /\ cmd.fetches = 0
  /\ db.matches # {}

----------------------------------------------------------------------------
(* Exit status of a `matches sync` process *)

\* The Result async_main returns for a run that has ended.
SyncResult(st) == [ok |-> st.pc = "done", err |-> st.err]

ExitInputs ==
  { SyncArgs(ids, account_id, None, None, 3, 2, FALSE) :
      ids \in {<<>>, <<1, 2, 3>>},
      account_id \in {None, Some(1)} }

ExitMmrResults == {MmrOk(<<1>>), MmrErr, MmrRateLimited}

NextExit ==
  \/ \E args \in ExitInputs, conn_ok \in BOOLEAN :
       \E mmr \in (IF args.account_id = None THEN {MmrErr}
                   ELSE ExitMmrResults) :
         SyncResolve(args, conn_ok, mmr, TRUE)
  \/ \E query_ok \in BOOLEAN : SyncDedup(query_ok)
  \/ /\ sync.pc = "fetch"
     /\ \E res \in FetchResults(sync.chunks[sync.k]) : SyncFetch(res)
  \/ /\ sync.pc = "ingest"
     /\ \E failAt \in LastFailPoint(Len(MatchStmts(sync.metas))) : SyncIngest(failAt)

SpecExit == Init /\ [][NextExit]_vars

\* A record-metadata request of the run exhausted its attempts on 429s.
ChunkRateLimited(st) ==
  \E i \in 1..Len(st.results) : st.results[i].err.kind = "RateLimited"

\* The score-history request of the run exhausted its attempts on 429s.
MmrWasRateLimited(st) ==
  st.args.account_id # None /\ st.mmr.err.kind = "RateLimited"

Ended(st) == st.pc \in {"done", "failed"}

\* C27, as stated: whenever an upstream request of the run exhausted its
\* retry budget because of rate limiting the process exits with 29; every
\* other failure exits with 1; a successful or informational end exits
\* with 0.
C27_ExitStatus ==
  Ended(sync)
  => IF ChunkRateLimited(sync) \/ MmrWasRateLimited(sync)
     THEN main(SyncResult(sync)) = 29
     ELSE main(SyncResult(sync)) = (IF sync.pc = "failed" THEN 1 ELSE 0)

\* C27, amended: the process exits with 29 exactly when the error that ends
\* the run is a rate-limit exhaustion, which in a sync run is that of a
\* record-metadata request; with 1 when any other error ends it; with 0
\* when it ends successfully or informationally, also when the
\* score-history request was rate limited, which is only warned about.
C27_ExitStatusOfUnhandled ==
  Ended(sync)
  => /\ main(SyncResult(sync)) =
          (IF sync.pc = "done" THEN 0
           ELSE IF sync.err.kind = "RateLimited" THEN 29 ELSE 1)
     /\ ChunkRateLimited(sync)
        <=> (sync.pc = "failed" /\ sync.err.kind = "RateLimited")
     /\ MmrWasRateLimited(sync) => sync.warned

\* A run whose third-id chunk request was rate limited after the first
\* chunk was stored: it failed and the process exits with 29.
C27_Witness ==
  /\ sync.pc = "failed" /\ ChunkRateLimited(sync)
  /\ Len(sync.results) = 2 /\ sync.fails = <<0>>
  /\ main(SyncResult(sync)) = 29

\* C28: rerun after failure.  When a sync run over explicit ids failed at
\* chunk k and the next run has the same inputs, no request of that second
\* run contains an id whose record a chunk before k committed.
C28_RerunSkipsCommitted ==
  (sync.args.ids # <<>> /\ sync.pc # "idle")
  => \A i \in 1..Len(sync.requested) :
       Range(sync.requested[i]) \cap sync.rerun_of = {}

----------------------------------------------------------------------------
(* Totals of a sync run whose records carry sub-records *)

\* A record with the first k accounts as its players.
TotalsMeta(id, k) ==
  [match_id |-> id, sc |-> AllNull(MatchCols), info |-> None,
   players |-> Some(ChunkPlayers(k))]

\* What upstream returns for a chunk: records with one player each, with
\* MaxAccountId players each, or a 404.
TotalsFetchResults(chunk) ==
  { FetchOk([i \in 1..Len(chunk) |-> TotalsMeta(chunk[i], k)]) :
      k \in {1, MaxAccountId} }
  \cup { FetchErr(DeadlockError("Http", 404, "status", 0)) }

TotalsInputs ==
  { SyncArgs(<<1, 2, 3>>, None, None, None, 3, batch_size, dry_run) :
      batch_size \in {0, 2}, dry_run \in BOOLEAN }

NextTotals ==
  \/ \E args \in TotalsInputs : SyncResolve(args, TRUE, MmrErr, TRUE)
  \/ \E query_ok \in BOOLEAN : SyncDedup(query_ok)
  \/ /\ sync.pc = "fetch"
     /\ \E res \in TotalsFetchResults(sync.chunks[sync.k]) : SyncFetch(res)
  \/ /\ sync.pc = "ingest"
     /\ \E failAt \in LastFailPoint(Len(MatchStmts(sync.metas))) : SyncIngest(failAt)

SpecTotals == Init /\ [][NextTotals]_vars

\* The records, and the sub-records, that the chunks 1..n of a run returned.
RECURSIVE RecordsIn(_, _)
RecordsIn(st, n) ==
  IF n = 0 THEN 0 ELSE RecordsIn(st, n - 1) + Len(st.results[n].metas)

RECURSIVE SubRecordsIn(_, _)
SubRecordsIn(st, n) ==
  IF n = 0 THEN 0
  ELSE SubRecordsIn(st, n - 1) + SubRecordCount(st.results[n].metas)

\* C29: totals.  When a non-dry-run sync finishes successfully its totals
\* are the sums, over all its chunks, of the records and of the sub-records
\* that the chunk's ingestion upserted; a 404 chunk contributes zero.
\* While the run goes on the totals are those sums over the chunks
\* committed so far.
C29_Totals ==
  (~sync.args.dry_run /\ sync.pc \in {"fetch", "ingest", "done"}
   /\ sync.residual # <<>>)
  => LET n == Len(sync.fails)
     IN  /\ sync.total_matches = RecordsIn(sync, n)
         /\ sync.total_players = SubRecordsIn(sync, n)
         /\ \A i \in 1..n : NotFound(sync.results[i]) => sync.results[i].metas = <<>>
         /\ sync.pc = "done" => n = Len(sync.chunks)

\* A run of three single-id chunks ended with totals: a chunk of one
\* record with MaxAccountId players, a 404, a chunk of one record with one
\* player.
C29_Witness ==
  /\ sync.pc = "done" /\ sync.note = "totals"
  /\ Len(sync.chunks) = 3
  /\ sync.results[1].ok /\ Len(Unwrap(sync.results[1].metas[1].players)) = MaxAccountId
  /\ NotFound(sync.results[2])
  /\ sync.results[3].ok /\ Len(Unwrap(sync.results[3].metas[1].players)) = 1
  /\ sync.total_matches = 2
  /\ sync.total_players = MaxAccountId + 1

----------------------------------------------------------------------------
(* A sync run whose chunk requests are get_json requests, attempt by
   attempt: termination *)

LiveInputs ==
  { SyncArgs(<<1, 2>>, None, None, None, 2, 1, dry_run) : dry_run \in BOOLEAN }

LiveResponses ==
  { Response("net", 0, NoHeader, FALSE),
    Response("http", 429, NoHeader, FALSE),
    Response("http", 429, Header("secs", 1), FALSE),
    Response("http", 404, NoHeader, FALSE),
    Response("http", 500, NoHeader, FALSE),
    Response("http", 200, NoHeader, TRUE) }

\* get_matches_metadata's Result for what get_json returned: the records of
\* the chunk, or get_json's error.
FetchResultOf(result, chunk) ==
  IF result.ok THEN FetchOk(MetasOf(chunk, Range(chunk)))
  ELSE FetchErr(result.err)

\* get_matches_metadata of chunk k calls get_json.
ChunkRequestStarts == sync.pc = "fetch" /\ StartRequest

\* One attempt of that get_json.
ChunkRequestAttempt ==
  sync.pc = "fetch" /\ \E rsp \in LiveResponses : GetJsonAttempt(rsp)

\* get_json has returned, and the run goes on with its Result.
ChunkRequestReturns ==
  /\ sync.pc = "fetch" /\ rq.pc = "done"
  /\ sync' = SyncFetched(sync, FetchResultOf(Unwrap(rq.result),
                                             sync.chunks[sync.k]))
  /\ rq' = NoRequest
  /\ UNCHANGED <<db, call, cmd, txs, lookup>>

LiveDedup == \E query_ok \in BOOLEAN : SyncDedup(query_ok)

LiveIngest ==
  /\ sync.pc = "ingest"
  /\ \E failAt \in LastFailPoint(Len(MatchStmts(sync.metas))) : SyncIngest(failAt)

NextLive ==
  \/ \E args \in LiveInputs, conn_ok \in BOOLEAN :
       SyncResolve(args, conn_ok, MmrErr, TRUE)
  \/ LiveDedup
  \/ ChunkRequestStarts
  \/ ChunkRequestAttempt
  \/ ChunkRequestReturns
  \/ LiveIngest

\* Every upstream call and every storage call that is under way eventually
\* returns; nothing obliges a new run to start.
SpecLive ==
  /\ Init /\ [][NextLive]_vars
  /\ WF_vars(LiveDedup)
  /\ WF_vars(ChunkRequestStarts)
  /\ WF_vars(ChunkRequestAttempt)
  /\ WF_vars(ChunkRequestReturns)
  /\ WF_vars(LiveIngest)

Running(st) == st.pc \in {"dedup", "fetch", "ingest"}

\* C30: every sync run terminates.  A run that has started reaches Done (no
\* candidates, up to date, or success) or Failed(error); on the way the
\* chunk index stays within the finite chunk list and a request makes at
\* most MaxAttempts attempts.
C30_Terminates ==
  /\ [](sync.k <= Len(sync.chunks) /\ rq.attempt <= MaxAttempts)
  /\ Running(sync) ~> Ended(sync)

\* The request of the second chunk is about to make its fourth attempt,
\* after the first chunk was fetched and stored.
C30_Witness ==
  /\ sync.pc = "fetch" /\ sync.k = 2
  /\ rq.pc = "run" /\ rq.attempt = MaxAttempts - 1
  /\ sync.fails = <<0>> /\ StoredIds(db) = {1}

----------------------------------------------------------------------------
(* Two sync runs ingesting chunks over the same ids at the same time *)

ConcMeta(id, sc, players) ==
  [match_id |-> id, sc |-> sc, info |-> None, players |-> players]

\* Chunks over the ids 1 and 2 in both orders, with scalars present and
\* absent, and participants in both orders.
ConcBatches ==
  { <<ConcMeta(1, MatchScalars(MatchCols, 1), Some(<<ChunkPlayer(1), ChunkPlayer(2)>>)),
      ConcMeta(2, AllNull(MatchCols), None)>>,
    <<ConcMeta(2, MatchScalars(MatchCols, MaxVal), Some(<<ChunkPlayer(2), ChunkPlayer(1)>>)),
      ConcMeta(1, AllNull(MatchCols), None)>>,
    <<ConcMeta(1, AllNull(MatchCols), Some(<<ChunkPlayer(1)>>))>>,
    <<ConcMeta(2, AllNull(MatchCols), None)>> }

NextConcurrent ==
  \E r \in Runs :
    \/ \E metas \in ConcBatches : TxBegin(r, metas)
    \/ TxStatement(r)
    \/ TxCommit(r)
    \/ TxRollback(r)

SpecConcurrent == Init /\ [][NextConcurrent]_vars

\* No two rows of a table have the same key.
UniqueKeys(D) ==
  \A t \in TxTables :
    \A r, q \in D[t] : RowKey(t, r) = RowKey(t, q) => r = q

\* C31: concurrent sync runs are safe at row granularity.  Under every
\* interleaving of the statements and commits of the chunk transactions of
\* two runs over the same ids, the committed tables have at most one row
\* per record id, per (record id, participant id) and per participant, and
\* no commit turns a stored non-null record scalar into null.
C31_RowSafe ==
  /\ [](UniqueKeys(db))
  /\ [][MatchRowsKeepNonNull(db, db')]_vars

\* Both transactions are open on the two overlapping two-record chunks,
\* each has written its first record, each next needs the record the other
\* holds, and record 1 is committed with its scalars.
C31_Witness ==
  /\ txs[1].pc = "open" /\ txs[2].pc = "open"
  /\ txs[1].stmts # txs[2].stmts
  /\ txs[1].n >= 1 /\ txs[2].n >= 1
  /\ txs[1].n < Len(txs[1].stmts)
  /\ HoldsRow(txs[2], txs[1].stmts[txs[1].n + 1])
  /\ \E m \in db.matches : m.match_id = 1 /\ m.sc["duration_s"] # None

----------------------------------------------------------------------------
(* The counts ingest_player reports *)

\* The entries of a hero list that carry last_played.
WithLastPlayed(hs) == {i \in 1..Len(hs) : hs[i].last_played # None}

\* C32: a successful ingest_player reports heroes_upserted = the number of
\* per-category entries of the payload, hero_history_added = the number of
\* those entries that carry last_played, and mmr_updated = TRUE exactly when
\* a latest score is present; ingesting the same payload again reports the
\* same counts while mmr_history and hero_stats_history gain no row.
C32_ReportedCounts ==
  [][ (call'.op = "ingest_player" /\ call'.ok) =>
        LET p == call'.payload
        IN  /\ call'.pout.heroes_upserted = Len(p.hero_stats)
            /\ call'.pout.hero_history_added =
                 Cardinality(WithLastPlayed(p.hero_stats))
            /\ call'.pout.mmr_updated = (p.latest_mmr # None)
            /\ call'.rerun =>
                 /\ call'.pout = call.pout
                 /\ db'.mmr_history = db.mmr_history
                 /\ db'.hero_stats_history = db.hero_stats_history ]_vars

\* The payload with a latest score and two entries of one category, both
\* with last_played, was ingested a second time: two entries are reported
\* as added to the history.
C32_Witness ==
  /\ call.op = "ingest_player" /\ call.rerun
  /\ call.pout.mmr_updated
  /\ call.pout.heroes_upserted = 2
  /\ call.pout.hero_history_added = 2
  /\ db.hero_stats_history # {} /\ db.mmr_history # {}

----------------------------------------------------------------------------
(* steam.rs: the conversions between SteamID64 and account id *)

\* How far above each base the inputs go.
MaxSteamStep == 30

\* 76561197960265728 + k * 2^32 for k = 0, 1, 2; the largest offset the
\* integers of the checker hold; a number below the minimum; a string of 16
\* digits; a string with a character that is no digit.
SteamIdBases ==
  { STEAMID64_MIN,
    <<7,6,5,6,1,2,0,2,2,5,5,2,3,3,0,2,4>>,
    <<7,6,5,6,1,2,0,6,5,5,0,2,0,0,3,2,0>>,
    <<7,6,5,6,1,2,0,0,1,0,7,7,4,9,3,2,8>>,
    <<7,6,5,6,1,1,9,7,9,6,0,2,6,5,6,9,8>>,
    <<7,6,5,6,1,1,9,7,9,6,0,2,6,5,7,2>>,
    <<7,6,5,6,1,1,9,7,9,6,0,2,6,5,10,0,0>> }

SteamIds == {AddToDigits(b, k) : b \in SteamIdBases, k \in 0..MaxSteamStep}

SteamAccountIds ==
  (0..MaxSteamStep) \cup {2147483600 + k : k \in 0..MaxSteamStep}

NextSteam ==
  \/ \E id \in SteamIds : SteamIdToAccountId(id)
  \/ \E a \in SteamAccountIds : AccountIdToSteamId(a)

SpecSteam == Init /\ [][NextSteam]_vars

\* A digit string without its leading zeros.
RECURSIVE StripZeros(_)
StripZeros(ds) ==
  IF ds # <<>> /\ ds[1] = 0 THEN StripZeros(Tail(ds)) ELSE ds

\* C33: for every string accepted by validate_steamid64 (17 digits, value
\* >= 76561197960265728) steamid64_to_account_id returns exactly value -
\* 76561197960265728, and account_id_to_steamid64 of that result is the
\* original string; and steamid64_to_account_id(account_id_to_steamid64(a))
\* = a for every account id a.
C33_RoundTrip ==
  /\ (call.op = "steamid64_to_account_id" /\ call.valid) =>
       \E acc \in call.acc :
         /\ AddToDigits(<<>>, acc) = StripZeros(SubDigits(call.id, STEAMID64_MIN, 0))
         /\ account_id_to_steamid64(acc) = call.id
  /\ call.op = "account_id_to_steamid64" =>
       steamid64_to_account_id(call.id) = {call.account_id}

\* The same for the accepted strings whose value is below
\* 76561197960265728 + 2^32, where it holds.
C33_RoundTripBelow2_32 ==
  /\ (/\ call.op = "steamid64_to_account_id" /\ call.valid
      /\ DigitsLess(call.id, <<7,6,5,6,1,2,0,2,2,5,5,2,3,3,0,2,4>>)) =>
       \E acc \in call.acc :
         /\ AddToDigits(<<>>, acc) = StripZeros(SubDigits(call.id, STEAMID64_MIN, 0))
         /\ account_id_to_steamid64(acc) = call.id
  /\ call.op = "account_id_to_steamid64" =>
       steamid64_to_account_id(call.id) = {call.account_id}

----------------------------------------------------------------------------
(* The same sync run over a participant's score history, again and again *)

\* The record ids of the participant's score history, as upstream lists
\* them.
ProgressHistories == {<<4, 1, 3, 1, 2>>, <<2, 3>>, <<3, 3, 1>>}

ProgressInputs ==
  { SyncArgs(<<>>, Some(1), None, None, limit, batch_size, FALSE) :
      limit \in 1..3, batch_size \in 1..2 }

\* Every run has the arguments and the upstream history of the first one;
\* the storage is reachable, every query and every commit succeeds, and
\* upstream returns a record for every requested id.
NextProgress ==
  \/ \E args \in ProgressInputs, ids \in ProgressHistories :
       /\ sync.pc # "idle" => (args = sync.args /\ MmrOk(ids) = sync.mmr)
       /\ SyncResolve(args, TRUE, MmrOk(ids), TRUE)
  \/ SyncDedup(TRUE)
  \/ /\ sync.pc = "fetch"
     /\ SyncFetch(FetchOk(MetasOf(sync.chunks[sync.k], Range(sync.chunks[sync.k]))))
  \/ /\ sync.pc = "ingest"
     /\ SyncIngest(0)

\* Each run goes on, and the next run is started.
SpecProgress == Init /\ [][NextProgress]_vars /\ WF_vars(NextProgress)

\* The history of the runs yields more distinct ids than `limit`.
OverLimit ==
  /\ sync.pc # "idle"
  /\ Cardinality(Range(sync.mmr.ids)) > sync.args.limit

HistoryStored == Range(sync.mmr.ids) \subseteq StoredIds(db)

\* C34: progress across reruns.  For a participant whose upstream score
\* history yields more than `limit` distinct record ids, repeating the same
\* sync run (every fetch and commit succeeding, upstream returning a record
\* for every requested id) eventually stores every one of those ids, and a
\* run ends as already up to date only when all of them are stored.
C34_ProgressAcrossReruns ==
  /\ OverLimit ~> HistoryStored
  /\ []((OverLimit /\ sync.pc = "done" /\ sync.note = "nothing_to_do")
          => HistoryStored)

\* With at most `limit` distinct ids in the history the repeated run stores
\* all of them and only then ends as already up to date.
C34_ProgressWithinLimit ==
  /\ (sync.pc # "idle" /\ ~OverLimit) ~> HistoryStored
  /\ []((sync.pc = "done" /\ sync.note = "nothing_to_do" /\ ~OverLimit)
          => HistoryStored)

----------------------------------------------------------------------------
(* Sleeps and attempts of one request *)

\* The i-th entry of the log is followed by an attempt: the next entry is a
\* send, or the request is still running and its next attempt is due.
FollowedByAttempt(st, i) ==
  IF i < Len(st.log) THEN st.log[i + 1].ev = "send" ELSE st.pc = "run"

\* C35: get_json never sleeps after its final (4th) attempt: one request
\* sleeps at most 3 times, and every sleep, from a wait hint or from the
\* backoff schedule, is followed by another attempt.
C35_NoSleepAfterFinalAttempt ==
  /\ Len(Sleeps(rq)) <= 3
  /\ \A i \in 1..Len(rq.log) :
       rq.log[i].ev = "sleep" => FollowedByAttempt(rq, i)

\* The same for the sleeps of the backoff schedule alone, where it holds.
C35_NoBackoffAfterFinalAttempt ==
  /\ Len(BackoffSleeps(rq)) <= 3
  /\ \A i \in 1..Len(rq.log) :
       (rq.log[i].ev = "sleep" /\ rq.log[i].why # "hint")
         => FollowedByAttempt(rq, i)

----------------------------------------------------------------------------
(* Candidate resolution when the score-history fetch fails *)

\* The `limit` smallest elements of a set of ids.
Smallest(S, limit) == {x \in S : Cardinality({y \in S : y < x}) < limit}

\* The ids start_from+1, start_from+2, ... of the sequential window of a
\* run that just resolved its candidates against the storage D.
WindowIds(D, st) ==
  LET a == st.args
      start_from == IF a.since_id # None THEN Unwrap(a.since_id)
                    ELSE IF st.max_failed THEN 0 ELSE MaxStored(D)
  IN  {id \in (start_from + 1)..(start_from + a.limit) :
         a.until_id = None \/ id <= Unwrap(a.until_id)}

\* This step is the candidate resolution of a run.
Resolves == sync.pc \in {"idle", "done", "failed"} /\ sync' # sync

\* C36: a failure of the participant's score-history fetch during candidate
\* resolution does not end the sync run: it contributes no ids, a warning
\* is printed, and the resolution goes on with the explicit ids if there
\* are any and with the sequential window otherwise.
C36_MmrFailureIsWarning ==
  [][ (Resolves /\ sync'.args.account_id # None /\ ~sync'.mmr.ok) =>
        /\ sync'.warned
        /\ sync'.pc # "failed"
        /\ Range(sync'.candidates) =
             IF sync'.args.ids # <<>>
             THEN Smallest(Range(sync'.args.ids), sync'.args.limit)
             ELSE WindowIds(db, sync')
        /\ (sync'.pc = "done") =
             (sync'.args.ids = <<>> /\ WindowIds(db, sync') = {}) ]_vars

\* A run with a participant and no explicit ids whose score-history fetch
\* failed: the warning was printed and the run goes on with the ids of the
\* sequential window after the largest stored id.
C36_Witness ==
  /\ sync.pc = "dedup" /\ sync.warned
  /\ sync.args.account_id # None /\ sync.args.ids = <<>>
  /\ sync.args.since_id = None
  /\ StoredIds(db) # {}
  /\ sync.candidates # <<>>

----------------------------------------------------------------------------
(* Storage reads of a sync run that fail *)

\* The run ended with an error that a request or an ingestion returned.
FailedDownstream(st) ==
  \/ st.results # <<>> /\ ~st.results[Len(st.results)].ok
  \/ st.fails # <<>> /\ st.fails[Len(st.fails)] # 0

\* C37: storage read failures in sync are not surfaced as errors.  When the
\* max-stored-id query fails the window starts after 0; when the
\* already-stored-ids query fails no candidate is filtered out, and every
\* candidate is requested and upserted again; the run still ends normally
\* unless a request or an ingestion fails.
C37_ReadFailuresSwallowed ==
  /\ [][ (Resolves /\ sync'.max_failed) =>
           /\ sync'.pc # "failed"
           /\ Range(sync'.candidates) =
                {id \in 1..sync'.args.limit :
                   sync'.args.until_id = None \/ id <= Unwrap(sync'.args.until_id)} ]_vars
  /\ [][ (sync.pc = "dedup" /\ sync'.pc # "dedup" /\ ~sync'.dedup_ok) =>
           /\ sync'.residual = sync.candidates
           /\ sync'.pc = IF sync.candidates = <<>> THEN "done" ELSE "fetch" ]_vars
  /\ []((sync.pc = "done" /\ sync.note = "totals" /\ ~sync.dedup_ok) =>
          /\ Concat(sync.requested) = sync.candidates
          /\ \A i \in 1..Len(sync.results) :
               sync.results[i].ok =>
                 {sync.results[i].metas[j].match_id :
                    j \in 1..Len(sync.results[i].metas)} \subseteq StoredIds(db))
  /\ []((sync.pc = "failed" /\ (sync.max_failed \/ ~sync.dedup_ok)) =>
          FailedDownstream(sync))

\* The rerun of a failed window run: both of its storage reads failed, it
\* started its window after 0 again, requested the record the earlier run
\* had committed, and ended normally.
C37_Witness ==
  /\ sync.pc = "done" /\ sync.note = "totals"
  /\ sync.max_failed /\ ~sync.dedup_ok
  /\ sync.rerun_of \cap Range(Concat(sync.requested)) # {}
  /\ sync.total_matches > 0

----------------------------------------------------------------------------
(* since/until and resolved ids *)

\* id lies outside the bounds of the run: not above `since`, or above
\* `until`.
OutsideBounds(st, id) ==
  \/ st.args.since_id # None /\ id <= Unwrap(st.args.since_id)
  \/ st.args.until_id # None /\ id > Unwrap(st.args.until_id)

\* C38: since/until only shape the sequential window.  When explicit or
\* participant-derived ids are present, no window id is added to the
\* candidates, and the resolved ids outside since..until are kept: they are
\* candidates like the others, as far as `limit` reaches.
C38_BoundsOnlyShapeWindow ==
  (sync.pc # "idle" /\ ResolvedIds(sync) # {}) =>
    /\ \A c \in Range(sync.candidates) : c \in ResolvedIds(sync)
    /\ \A x \in ResolvedIds(sync) :
         (/\ OutsideBounds(sync, x)
          /\ Cardinality({y \in ResolvedIds(sync) : y < x}) < sync.args.limit)
         => x \in Range(sync.candidates)
    /\ sync.note # "no_ids"

\* since = 1 and until = 3 with the explicit ids 3,1,3 and the derived ids
\* 4,1: the candidates are 1, 3 and 4, with 1 and 4 outside the bounds and
\* the window id 2 absent.
C38_Witness ==
  /\ sync.pc = "dedup"
  /\ sync.args.since_id = Some(1) /\ sync.args.until_id = Some(3)
  /\ sync.candidates = <<1, 3, 4>>
  /\ OutsideBounds(sync, 1) /\ OutsideBounds(sync, 4)

----------------------------------------------------------------------------
(* The player lookup: three concurrent upstream lookups, then the writes *)

\* The lookup of account 1 starts: tokio::join! starts its three futures.
LookupStart ==
  /\ lookup.pc \in {"idle", "done", "failed"}
  /\ lookup' = [NewLookup(1) EXCEPT !.pc = "join", !.pending = LookupParts]
  /\ UNCHANGED <<db, call, rq, sync, cmd, txs>>

\* One of the three lookups completes with `result`.
LookupCompletes(part, result) ==
  /\ lookup.pc = "join" /\ part \in lookup.pending
  /\ lookup' = [lookup EXCEPT !.pending = @ \ {part},
                              !.res[part] = result,
                              !.order = Append(@, part)]
  /\ UNCHANGED <<db, call, rq, sync, cmd, txs>>

\* tokio::join! returns, the results are looked at, and the bundle is
\* stored: connect, migrate, ingest_player.
LookupIngest(conn_ok, failAt) ==
  /\ lookup.pc = "join" /\ lookup.pending = {}
  /\ LET h  == lookup_results(lookup.account_id, lookup.res)
         r  == ingest_player(db, h.payload, failAt)
         st == [lookup EXCEPT !.payload = h.payload, !.warnings = h.warnings]
     IN  IF ~h.ok
         THEN /\ lookup' = [lookup EXCEPT !.pc = "failed", !.err = h.err]
              /\ db' = db
         ELSE IF ~conn_ok
         THEN /\ lookup' = [st EXCEPT !.pc = "failed", !.err = StorageError]
              /\ db' = db
         ELSE /\ failAt \in PlayerFailPoints(h.payload)
              /\ db' = r.db
              /\ lookup' = IF r.ok
                           THEN [st EXCEPT !.pc = "history", !.writes = @ + 1]
                           ELSE [st EXCEPT !.pc = "failed", !.writes = @ + 1,
                                           !.err = StorageError]
  /\ UNCHANGED <<call, rq, sync, cmd, txs>>

\* get_player_match_history returns and its records are stored.
LookupHistory(result, failAt) ==
  /\ lookup.pc = "history"
  /\ LET metas == GroupHistory(result.entries)
         r     == ingest_matches_batch(db, metas, failAt)
     IN  IF ~result.ok \/ result.entries = <<>>
         THEN /\ db' = db
              /\ lookup' = [lookup EXCEPT !.pc = "done"]
         ELSE /\ failAt \in MatchFailPoints(metas)
              /\ db' = r.db
              /\ lookup' = IF r.ok
                           THEN [lookup EXCEPT !.pc = "done", !.writes = @ + 1]
                           ELSE [lookup EXCEPT !.pc = "failed", !.writes = @ + 1,
                                               !.err = StorageError]
  /\ UNCHANGED <<call, rq, sync, cmd, txs>>

ServerError == DeadlockError("Http", 500, "status", 0)

LookupResults(part) ==
  CASE part = "profile" ->
         { LookupOk(<<>>), LookupOk(<<Profile(1, None, None)>>),
           LookupErr(DeadlockError("Http", 404, "status", 0)),
           LookupErr(ServerError) }
    [] part = "mmr" ->
         { LookupOk(<<>>),
           LookupOk(<<MmrEntry(1, Mmr(1, MaxVal)), MmrEntry(2, Mmr(MaxVal, 1)),
                      MmrEntry(1, Mmr(0, 1))>>),
           LookupErr(ServerError) }
    [] part = "hero_stats" ->
         { LookupOk(<<>>), LookupOk(<<Hero(1, Some(0), 1)>>),
           LookupErr(ServerError) }

NextLookup ==
  \/ LookupStart
  \/ \E part \in LookupParts : \E result \in LookupResults(part) :
       LookupCompletes(part, result)
  \/ \E conn_ok \in BOOLEAN, failAt \in {0, 1} : LookupIngest(conn_ok, failAt)
  \/ \E result \in HistoryResults, failAt \in {0, 1} :
       LookupHistory(result, failAt)

SpecLookup == Init /\ [][NextLookup]_vars

\* The profile lookup returned a profile.
ProfileFound(st) == st.res["profile"].ok /\ st.res["profile"].v # <<>>

\* C39: in the player lookup the three upstream lookups (profile, score
\* history, per-category stats) have all completed before anything is
\* written; a failed or empty profile lookup ends the command with an error
\* and no storage write, whereas a failed score or per-category lookup is
\* only a warning and the bundle is still ingested with that part absent,
\* whatever the order the lookups completed in.
C39_JoinBeforeWrite ==
  /\ [][ (db' # db \/ lookup'.writes # lookup.writes) =>
           lookup.pending = {} /\ Len(lookup.order) = 3 ]_vars
  /\ []((lookup.pc \notin {"idle", "join"} /\ ~ProfileFound(lookup)) =>
          /\ lookup.pc = "failed" /\ lookup.err # NoError
          /\ lookup.writes = 0)
  /\ [][ (lookup.pc = "join" /\ lookup.pending = {} /\ ProfileFound(lookup)
          /\ lookup'.pc # "join" /\ lookup'.err # StorageError) =>
           /\ lookup'.pc = "history" /\ lookup'.writes = 1
           /\ lookup'.warnings =
                {part \in {"mmr", "hero_stats"} : ~lookup.res[part].ok}
           /\ ~lookup.res["mmr"].ok => lookup'.payload.latest_mmr = None
           /\ ~lookup.res["hero_stats"].ok => lookup'.payload.hero_stats = <<>>
           /\ lookup'.payload.profile = Head(lookup.res["profile"].v)
           /\ db' = ingest_player(db, lookup'.payload, 0).db ]_vars

\* The profile lookup completed last and found the player, the score and
\* the per-category lookups had failed before it: the bundle was stored
\* with two warnings, the player row without a latest score or a category
\* row.
C39_Witness ==
  /\ lookup.pc = "history"
  /\ lookup.order = <<"hero_stats", "mmr", "profile">>
  /\ lookup.warnings = {"mmr", "hero_stats"}
  /\ db.players # {} /\ db.latest_mmr = {} /\ db.hero_stats_current = {}

====
